---- MODULE Spec2Model ----
(***************************************************************************)
(* Lambda_Project ingestion core.                                          *)
(*                                                                         *)
(*   iot-producer/producer_unified.py : adapters -> data_queue ->          *)
(*       process_queue (batch files, retention trimming) and               *)
(*       process_aggregates (1 s windows, 3-sigma filter, discard counter) *)
(*   iot-producer/producer.py         : push-stream producer with a        *)
(*       watchdog supervisor and the rotating discard counters             *)
(*                                                                         *)
(* The specifications share the variables below:                           *)
(*   SpecBatch      adapters, the bounded queue and the batch writer       *)
(*   FairSpecBatch  the same, fairly scheduled, on an empty directory      *)
(*   SpecBatchCalm  the same, with no clock tick and no failed write       *)
(*   SpecAgg        the aggregation loop, the model manager, discard flush *)
(*   SpecLegacy     producer.py: filtering within one sleep of main        *)
(*   SpecWatchdog   producer.py: the supervisor and the connection         *)
(*   SpecRotate     producer.py: counting and rotation                     *)
(*   SpecProducers  SpecAgg or SpecLegacy, whichever producer runs         *)
(*   SpecRouting    archive and store routing of either producer           *)
(*   SpecClassify   the two classifiers on every kind of model entry       *)
(*   SpecCounters   the discard counters of either producer                *)
(*   SpecStartup    setup_connections and the start of the tasks           *)
(*   SpecReconnect  the push-stream connection loop of either producer     *)
(*   SpecFeed       run_binance's on_msg and the queue's consumer          *)
(*   SpecSwap       the copy-and-clear of the aggregation buffer           *)
(*   SpecRefresh    the periodic refresh with a model left published       *)
(*   SpecLocks      the three locks of producer_unified.py and their users *)
(* A variable a specification does not use keeps its initial value.        *)
(***************************************************************************)
EXTENDS Integers, Sequences, FiniteSets, TLC

\* ------------------------------------------------------------------ bounds
\* Readings the adapters offer in one run.
MaxReadings == 4
\* Clock ticks of a run after which the clock reading stays put.
MaxTicks == 4
\* Batch files a previous run may have left in the incoming directory.
MaxOldFiles == 3
\* data_queue = queue.Queue(maxsize=10000), scaled.
QUEUE_MAXSIZE == 2
\* HDFS_BATCH_SIZE = 500, scaled.
HDFS_BATCH_SIZE == 2
\* HDFS_FLUSH_INTERVAL = 60 (seconds), in clock ticks, scaled.
HDFS_FLUSH_INTERVAL == 1
\* Ticks an adapter may wait in put() before the wait counts as "long".
PutTimeout == 1
\* Values process_queue appends to aggregation_buffer in one run of the
\* filter side.
MaxValues == 3

\* time.sleep(5) in run_binance's except branch, in clock ticks.
BINANCE_RETRY_DELAY == 1
\* Calls of run_binance's on_msg in a run.
MaxFeed == 4

\* producer.py, with one tick standing for five seconds:
\* ws threads main may start
MaxConnects == 2
\* trades on_message may record
MaxMessages == 3
\* times the cron job may leave the rotate trigger
MaxRotations == 1
\* clock ticks of a producer.py run
MaxLegacyTicks == 8
\* time.sleep(10) in main's inner loop
POLL == 2
\* watchdog_timeout = 40
watchdog_timeout == 3
\* ws_thread.join(timeout=5.0)
JOIN_TIMEOUT == 1
\* time.sleep(10) before reconnecting
RECONNECT_DELAY == 2

\* ------------------------------------------------------- program constants
\* cleanup_old_batches keeps the last 3 batch files.
RETAIN == 3
\* First clock reading of a run: int(time.time() * 1000) has a fixed number
\* of digits (13 from 2001 to 2286); two digits here.
Epoch == 14
MaxTime == Epoch + MaxTicks
\* Names left by earlier runs are older than Epoch: a run starts with the k
\* newest of them, for some k.
OldDirs == {(Epoch - k)..(Epoch - 1) : k \in 0..MaxOldFiles}

Adapters == {"Binance", "Coinbase"}
Sensors == {"A1", "B1"}

\* -------------------------------------------------------------- variables
VARIABLES
    \* --- producer_unified.py, batch side
    now,                \* time.time(), in ticks
    data_queue,         \* queue.Queue: sequence of readings
    pcAd,               \* adapter -> "idle" | "put"   (inside data_queue.put)
    offered,            \* adapter -> the reading it is putting
    put_wait,           \* adapter -> ticks spent in put() on a full queue
    next_id,            \* identity of the next reading an adapter creates
    aggregation_buffer, \* sensor -> sequence of prices
    hdfs_buffer,        \* process_queue's local list of lines
    dequeued,           \* the readings get() has returned since the last
                        \* completed flush, in the order of the calls
    flush_age,          \* time.time() - last_hdfs_flush, saturating
    pcQ,                \* process_queue's position
    ts_batch,           \* the name chosen by the flush in progress (0: none)
    incoming,           \* HDFS_INCOMING_DIR: the batch files' timestamps
    trim_err,           \* how the flush in progress's cleanup_old_batches went
    trim_deleted,       \* the files it deleted
    copies,             \* reading id -> successful batch writes holding it
    flushes,            \* successful batch writes so far
    \* --- the filter side (process_aggregates, update_model, discard stats)
    filtering_model,    \* "None" or the name of the model loaded
    model_lock,         \* "free" or the task holding model_lock
    pcA,                \* process_aggregates' position
    current_data,       \* its copy of the window: sensor -> prices
    todo,               \* sensors of current_data still to classify
    cur,                \* the sensor is_clean is looking at
    m_read,             \* is_clean's local m
    outcome,            \* what the last classification did
    writes,             \* low-latency-store writes attempted so far
    rejected,           \* increments of discard_counter so far
    appended,           \* values appended to aggregation_buffer so far
    discard_counter,    \* the in-memory discard counter
    pcM,                \* the orchestrator loop's position
    content,            \* update_model's downloaded text c
    local_count,        \* flush_discard_stats' local_count
    current_total,      \* flush_discard_stats' current_total
    stats_file,         \* HDFS_DISCARD_STATS_PATH: "absent", "corrupt" or its total
    base_total,         \* the durable total when the run started
    retrying,           \* a stats write has failed since the last one that succeeded
    \* --- producer.py (its filtering_model, model_lock, stats file, clock and
    \* main-thread position are the variables above)
    variant,            \* which producer runs: "unified" | "legacy"
    ws,                 \* connection -> "none" | "open" | "closing" | "dead"
    pcW,                \* connection -> on_message's position
    msg,                \* connection -> the trade on_message is handling
    current_model,      \* connection -> on_message's current_model
    connections,        \* ws threads started so far; the last is ws_thread
    last_data_received_time,
    wake,               \* when the main thread's sleep or join ends
    discard_counter_memory,
    rotate_trigger,     \* HDFS_ROTATE_TRIGGER_PATH exists
    current_job_discards, \* rotate_discard_counters' local
    old_stats,          \* rotate_discard_counters' local
    read_failed,        \* its read of an existing stats file raised
    pcMW,               \* model_watcher's position
    new_model_data,     \* thread -> update_filtering_model's local
    model_file,         \* HDFS_MODEL_PATH: "missing" or its text
    received,           \* trades on_message has recorded so far
    archived,           \* lines on_message has tried to append to the archive
    rotations,          \* times the cron job has left the trigger
    gap,                \* the silence the last recorded trade ended
    forced,             \* connections the watchdog closed
    lost,               \* connections main found dead
    \* --- setup_connections, of either producer
    cassandra_query,    \* "None" | "prepared": the store loop has completed
    hdfs_client,        \* "None" | "untested" | "connected": no client yet, a
                        \* client whose directory check has not succeeded,
                        \* or one whose check has
    \* --- run_binance of producer_unified.py
    last_ts_map,        \* sensor -> the event time on_msg recorded last (0: no key)
    enqueued_ts,        \* sensor -> the event times of the readings on_msg has put
    handled,            \* calls of on_msg so far
    on_msg_did          \* the last message on_msg was given, and what it did

batchOnly == <<now, data_queue, pcAd, offered, put_wait, next_id,
               hdfs_buffer, dequeued, flush_age, pcQ, ts_batch,
               incoming, trim_err, trim_deleted, copies, flushes>>

filterOnly == <<filtering_model, model_lock, pcA, current_data, todo, cur,
                m_read, outcome, writes, rejected, appended, discard_counter,
                pcM, content, local_count, current_total, stats_file,
                base_total, retrying>>

\* What setup_connections sets, before any task of either producer runs.
connOnly == <<cassandra_query, hdfs_client>>

\* What only run_binance's on_msg touches.
feedOnly == <<last_ts_map, enqueued_ts, handled, on_msg_did>>

legacyOnly == <<variant, ws, pcW, msg, current_model, connections,
                last_data_received_time, wake, discard_counter_memory,
                rotate_trigger, current_job_discards, old_stats, read_failed,
                pcMW, new_model_data, model_file, received, archived,
                rotations, gap, forced, lost, connOnly, feedOnly>>

\* What producer.py never touches once its setup_connections has returned.
unifiedOnly == <<data_queue, pcAd, offered, put_wait, next_id, hdfs_buffer, dequeued,
                 flush_age, pcQ, ts_batch, incoming, trim_err, trim_deleted,
                 copies, flushes, aggregation_buffer, pcA, current_data, todo,
                 cur, m_read, appended, discard_counter, content, local_count,
                 current_total, retrying, connOnly, feedOnly>>

vars == <<batchOnly, aggregation_buffer, filterOnly, legacyOnly>>

Ids == 1..MaxReadings
NoReading == [id |-> 0, sid |-> "A1", p |-> 0, src |-> "none"]

\* run_binance has not been given a message: last_ts_map = {}.
NoMessage == [kind |-> "none", sid |-> "none", ts |-> 0, p |-> 0, parses |-> FALSE]
FeedIdle ==
    /\ last_ts_map = [s \in Sensors |-> 0]
    /\ enqueued_ts = [s \in Sensors |-> <<>>]
    /\ handled = 0
    /\ on_msg_did = [msg |-> NoMessage, res |-> "none"]

\* ------------------------------------------------------------ batch names
RECURSIVE Digits(_)
\* str(ts_batch): the decimal digits, most significant first.
Digits(n) == IF n < 10 THEN <<n>> ELSE Append(Digits(n \div 10), n % 10)

\* Python's str comparison on two digit strings (the "batch_" prefix and the
\* ".jsonl" suffix are common; '.' sorts below every digit, so a proper
\* prefix is the smaller name).
RECURSIVE LexLess(_, _)
LexLess(a, b) ==
    IF a = <<>> THEN b # <<>>
    ELSE IF b = <<>> THEN FALSE
    ELSE IF Head(a) # Head(b) THEN Head(a) < Head(b)
    ELSE LexLess(Tail(a), Tail(b))

NameLess(s, t) == LexLess(Digits(s), Digits(t))

\* batch_files.sort(): position of t in the sorted list, from 1.
Rank(t, files) == 1 + Cardinality({s \in files : NameLess(s, t)})

\* Mutant: the slice takes the other end of the sorted list,
\* batch_files[3:].
FilesToDeleteFromNewestEnd(files) ==
    IF Cardinality(files) > RETAIN
    THEN {t \in files : Rank(t, files) > RETAIN}
    ELSE {}

\* Mutant: the slice keeps two files, batch_files[:-2].
FilesToDeleteKeepsTwo(files) ==
    IF Cardinality(files) > RETAIN
    THEN {t \in files : Rank(t, files) <= Cardinality(files) - (RETAIN - 1)}
    ELSE {}

\* files_to_delete = batch_files[:-3] when len(batch_files) > 3, else none.
FilesToDelete(files) ==
    IF Cardinality(files) > RETAIN
    THEN {t \in files : Rank(t, files) <= Cardinality(files) - RETAIN}
    ELSE {}

\* The RETAIN greatest names of a directory.
Newest(files) == {t \in files : Cardinality({s \in files : NameLess(t, s)}) < RETAIN}

\* --------------------------------------------------------------- helpers
Min(a, b) == IF a < b THEN a ELSE b

\* with buffer_lock: aggregation_buffer[sid].append(price)
AggPut(buf, sid, p) == [buf EXCEPT ![sid] = Append(@, p)]

\* Mutant: the test does not ask for a non-empty buffer.
FlushDueEmptyToo(buf, age) ==
    Len(buf) >= HDFS_BATCH_SIZE \/ age > HDFS_FLUSH_INTERVAL

\* Mutant: the size test is len > HDFS_BATCH_SIZE.
FlushDueAboveSize(buf, age) ==
    Len(buf) > 0 /\ (Len(buf) > HDFS_BATCH_SIZE \/ age > HDFS_FLUSH_INTERVAL)

\* Mutant: the interval counts as over when the elapsed time equals it.
FlushDueAtInterval(buf, age) ==
    Len(buf) > 0 /\ (Len(buf) >= HDFS_BATCH_SIZE \/ age >= HDFS_FLUSH_INTERVAL)

\* len(hdfs_buffer) > 0 and (len >= HDFS_BATCH_SIZE or
\*                           time.time() - last_hdfs_flush > HDFS_FLUSH_INTERVAL)
FlushDue(buf, age) ==
    Len(buf) > 0 /\ (Len(buf) >= HDFS_BATCH_SIZE \/ age > HDFS_FLUSH_INTERVAL)

\* ------------------------------------------------------------ the model
\* Prices the filter side sees.
Prices == {4, 8}

\* Model files the trainer may publish (train_model.py prints one entry per
\* sensor with enough data): M1 knows A1 only; M2 has a zero deviation.
ModelNames == {"M1", "M2"}

\* The model file is whatever json.loads accepts: M3 is a file whose entry
\* for A1 has a mean and no 'std_dev' key.
ClassifyModels == ModelNames \cup {"M3"}

ModelOf(name) ==
    IF name = "M1" THEN [s \in {"A1"} |-> [mean |-> 4, std_dev |-> 1]]
    ELSE IF name = "M3" THEN [s \in {"A1"} |-> [mean |-> 4]]
    ELSE [s \in Sensors |-> IF s = "A1" THEN [mean |-> 8, std_dev |-> 0]
                                         ELSE [mean |-> 4, std_dev |-> 1]]

\* What update_model may find at HDFS_MODEL_PATH: an empty file, the text
\* '{}', text json.loads rejects, the JSON text 'null', or a model.
Contents == {"empty", "{}", "garbage", "null"} \cup ModelNames

\* not filtering_model
Falsy(model) == model = "None"

\* sid in filtering_model
HasEntry(model, sid) == ~Falsy(model) /\ sid \in DOMAIN ModelOf(model)

\* 'std_dev' in filtering_model[sid]
HasStd(model, sid) == HasEntry(model, sid) /\ "std_dev" \in DOMAIN ModelOf(model)[sid]

RECURSIVE Sum(_)
\* sum(prices)
Sum(seq) == IF seq = <<>> THEN 0 ELSE Head(seq) + Sum(Tail(seq))

\* (m - 3*s) <= avg <= (m + 3*s) for avg = total / n, without the division.
InBand(total, n, m, sd) == (m - 3 * sd) * n <= total /\ total <= (m + 3 * sd) * n

\* Mutant of Verdict: no shortcut for a zero deviation.
VerdictBandOnly(total, n, m, sd) == InBand(total, n, m, sd)

\* is_clean's last three lines: if s == 0: return True; return the band test.
Verdict(total, n, m, sd) == sd = 0 \/ InBand(total, n, m, sd)

\* The discard-stats file: absent, unreadable (empty or not JSON), or
\* {"total": n}.
StatsAbsent == [state |-> "absent", total |-> 0]
StatsCorrupt == [state |-> "corrupt", total |-> 0]
StatsTotal(n) == [state |-> "ok", total |-> n]

NoOutcome == [sid |-> "none", total |-> 0, n |-> 0, entry |-> FALSE,
              m |-> 0, sd |-> 0, wrote |-> FALSE]

\* ------------------------------------------------------------------ Init
BatchIdle ==
    /\ now = Epoch
    /\ data_queue = <<>>
    /\ pcAd = [a \in Adapters |-> "idle"]
    /\ offered = [a \in Adapters |-> NoReading]
    /\ put_wait = [a \in Adapters |-> 0]
    /\ next_id = 1
    /\ hdfs_buffer = <<>>
    /\ dequeued = <<>>
    /\ flush_age = 0
    /\ pcQ = "get"
    /\ ts_batch = 0
    /\ trim_err = "none"
    /\ trim_deleted = {}
    /\ copies = [r \in Ids |-> 0]
    /\ flushes = 0
    /\ FeedIdle

Conns == 1..MaxConnects
Threads == {"main", "watcher"}
NoTrade == [sid |-> "none", p |-> 0]
NoStats == [previous |-> 0, current |-> 0]

\* producer.py not running.
LegacyFields ==
    /\ ws = [c \in Conns |-> "none"]
    /\ pcW = [c \in Conns |-> "idle"]
    /\ msg = [c \in Conns |-> NoTrade]
    /\ current_model = [c \in Conns |-> "None"]
    /\ connections = 0
    /\ last_data_received_time = now
    /\ wake = now
    /\ discard_counter_memory = 0
    /\ rotate_trigger = FALSE
    /\ current_job_discards = 0
    /\ old_stats = NoStats
    /\ read_failed = FALSE
    /\ pcMW = "sleep"
    /\ new_model_data = [t \in Threads |-> "None"]
    /\ received = 0
    /\ archived = 0
    /\ rotations = 0
    /\ gap = 0
    /\ forced = 0
    /\ lost = 0

\* setup_connections has returned.
Connected ==
    /\ cassandra_query = "prepared"
    /\ hdfs_client = "connected"

LegacyIdle == LegacyFields /\ Connected

FilterIdle ==
    /\ model_lock = "free"
    /\ pcA = "sleep"
    /\ current_data = [s \in Sensors |-> <<>>]
    /\ todo = {}
    /\ cur = "none"
    /\ m_read = 0
    /\ outcome = NoOutcome
    /\ writes = 0
    /\ rejected = 0
    /\ appended = 0
    /\ discard_counter = 0
    /\ content = "empty"
    /\ local_count = 0
    /\ current_total = 0
    /\ retrying = FALSE

\* Module globals (lines 43-68) and process_queue's locals (lines 238-239);
\* the incoming directory holds what earlier runs left.
InitBatch ==
    /\ variant = "unified"
    /\ BatchIdle
    /\ LegacyIdle
    /\ model_file = "missing"
    /\ incoming \in OldDirs
    /\ aggregation_buffer = [s \in Sensors |-> <<>>]
    /\ FilterIdle
    /\ pcM = "idle"
    /\ filtering_model = "None"
    /\ stats_file = StatsTotal(0)
    /\ base_total = 0

\* --------------------------------------------------------------- adapters
QueueFull == Len(data_queue) >= QUEUE_MAXSIZE

\* data_queue.put(item) on a queue with room: the item is appended.
AdapterPut(a, sid, p) ==
    /\ pcAd[a] = "idle"
    /\ next_id <= MaxReadings
    /\ ~QueueFull
    /\ data_queue' = Append(data_queue, [id |-> next_id, sid |-> sid, p |-> p, src |-> a])
    /\ next_id' = next_id + 1
    /\ UNCHANGED <<now, pcAd, offered, put_wait, aggregation_buffer, hdfs_buffer, dequeued,
                   flush_age, pcQ, ts_batch, incoming, trim_err, trim_deleted,
                   copies, flushes, filterOnly, legacyOnly>>

\* data_queue.put(item) on a full queue: put() has no timeout, the adapter
\* waits inside it.
AdapterBlock(a, sid, p) ==
    /\ pcAd[a] = "idle"
    /\ next_id <= MaxReadings
    /\ QueueFull
    /\ pcAd' = [pcAd EXCEPT ![a] = "put"]
    /\ offered' = [offered EXCEPT ![a] = [id |-> next_id, sid |-> sid, p |-> p, src |-> a]]
    /\ next_id' = next_id + 1
    /\ UNCHANGED <<now, data_queue, put_wait, aggregation_buffer, hdfs_buffer, dequeued,
                   flush_age, pcQ, ts_batch, incoming, trim_err, trim_deleted,
                   copies, flushes, filterOnly, legacyOnly>>

\* Mutant: a put() that had to wait gives its reading up.
AdapterWakeDiscards(a) ==
    /\ pcAd[a] = "put"
    /\ ~QueueFull
    /\ pcAd' = [pcAd EXCEPT ![a] = "idle"]
    /\ offered' = [offered EXCEPT ![a] = NoReading]
    /\ put_wait' = [put_wait EXCEPT ![a] = 0]
    /\ UNCHANGED <<now, data_queue, next_id, aggregation_buffer, hdfs_buffer, dequeued,
                   flush_age, pcQ, ts_batch, incoming, trim_err, trim_deleted,
                   copies, flushes, filterOnly, legacyOnly>>

\* A waiting put() returns once the consumer has made room.
AdapterWake(a) ==
    /\ pcAd[a] = "put"
    /\ ~QueueFull
    /\ data_queue' = Append(data_queue, offered[a])
    /\ pcAd' = [pcAd EXCEPT ![a] = "idle"]
    /\ offered' = [offered EXCEPT ![a] = NoReading]
    /\ put_wait' = [put_wait EXCEPT ![a] = 0]
    /\ UNCHANGED <<now, next_id, aggregation_buffer, hdfs_buffer, dequeued, flush_age, pcQ,
                   ts_batch, incoming, trim_err, trim_deleted, copies, flushes, filterOnly, legacyOnly>>

\* ------------------------------------------------------------------ clock
\* One tick of time.time(). The reading stays put at MaxTime; the ages
\* saturate one past the value they are compared with.
Tick ==
    /\ now' = Min(now + 1, MaxTime)
    /\ flush_age' = Min(flush_age + 1, HDFS_FLUSH_INTERVAL + 1)
    /\ put_wait' = [a \in Adapters |->
                      IF pcAd[a] = "put" /\ QueueFull
                      THEN Min(put_wait[a] + 1, PutTimeout + 1)
                      ELSE put_wait[a]]
    /\ UNCHANGED <<data_queue, pcAd, offered, next_id, aggregation_buffer,
                   hdfs_buffer, dequeued, pcQ, ts_batch, incoming, trim_err, trim_deleted, copies, flushes, filterOnly, legacyOnly>>

\* ---------------------------------------------------------- process_queue
\* After the dequeue (or its timeout): the flush test, and the name of the
\* batch file when a flush is due.
AfterGet(buf) ==
    IF FlushDue(buf, flush_age)
    THEN pcQ' = "write" /\ ts_batch' = now
    ELSE pcQ' = "get" /\ ts_batch' = ts_batch

\* Mutant: a reading is archived only while a model is loaded.
QueueGetItemArchivesWithModel ==
    /\ pcQ = "get"
    /\ data_queue # <<>>
    /\ LET item == Head(data_queue)
           buf == IF Falsy(filtering_model) THEN hdfs_buffer
                  ELSE Append(hdfs_buffer, item.id)
       IN
        /\ data_queue' = Tail(data_queue)
        /\ aggregation_buffer' = AggPut(aggregation_buffer, item.sid, item.p)
        /\ hdfs_buffer' = buf
        /\ dequeued' = Append(dequeued, item)
        /\ AfterGet(buf)
    /\ UNCHANGED <<now, pcAd, offered, put_wait, next_id, flush_age, incoming,
                   trim_err, trim_deleted, copies, flushes, filterOnly, legacyOnly>>

\* Mutant: the newest line goes to the head of the buffer
\* (hdfs_buffer.insert(0, line)).
QueueGetItemPrepends ==
    /\ pcQ = "get"
    /\ data_queue # <<>>
    /\ LET item == Head(data_queue) IN
        /\ data_queue' = Tail(data_queue)
        /\ aggregation_buffer' = AggPut(aggregation_buffer, item.sid, item.p)
        /\ hdfs_buffer' = <<item.id>> \o hdfs_buffer
        /\ dequeued' = Append(dequeued, item)
        /\ AfterGet(<<item.id>> \o hdfs_buffer)
    /\ UNCHANGED <<now, pcAd, offered, put_wait, next_id, flush_age, incoming,
                   trim_err, trim_deleted, copies, flushes, filterOnly, legacyOnly>>

\* item = data_queue.get(timeout=1) returns a reading: it goes to the
\* aggregation buffer and, serialised, to hdfs_buffer.
QueueGetItem ==
    /\ pcQ = "get"
    /\ data_queue # <<>>
    /\ LET item == Head(data_queue) IN
        /\ data_queue' = Tail(data_queue)
        /\ aggregation_buffer' = AggPut(aggregation_buffer, item.sid, item.p)
        /\ hdfs_buffer' = Append(hdfs_buffer, item.id)
        /\ dequeued' = Append(dequeued, item)
        /\ AfterGet(Append(hdfs_buffer, item.id))
    /\ UNCHANGED <<now, pcAd, offered, put_wait, next_id, flush_age, incoming,
                   trim_err, trim_deleted, copies, flushes, filterOnly, legacyOnly>>

\* Mutant: the dequeue has no timeout; on an empty queue the loop waits
\* inside get() and does not reach the flush test.
QueueGetEmptyWaits ==
    /\ pcQ = "get"
    /\ data_queue = <<>>
    /\ UNCHANGED vars

\* data_queue.get(timeout=1) raises queue.Empty.
QueueGetEmpty ==
    /\ pcQ = "get"
    /\ data_queue = <<>>
    /\ AfterGet(hdfs_buffer)
    /\ UNCHANGED <<now, data_queue, pcAd, offered, put_wait, next_id,
                   aggregation_buffer, hdfs_buffer, dequeued, flush_age, incoming,
                   trim_err, trim_deleted, copies, flushes, filterOnly, legacyOnly>>

\* hdfs_client.write(full_path, overwrite=True) succeeds: the file holds the
\* whole buffer.
WriteOk ==
    /\ pcQ = "write"
    /\ incoming' = incoming \cup {ts_batch}
    /\ copies' = [r \in Ids |->
                    IF \E i \in 1..Len(hdfs_buffer) : hdfs_buffer[i] = r
                    THEN copies[r] + 1 ELSE copies[r]]
    /\ flushes' = flushes + 1
    /\ pcQ' = "trim"
    /\ UNCHANGED <<now, data_queue, pcAd, offered, put_wait, next_id,
                   aggregation_buffer, hdfs_buffer, dequeued, flush_age, ts_batch, trim_err, trim_deleted, filterOnly, legacyOnly>>

\* Mutant: a failed write counts as a flush for the interval.
WriteFailAdvancesFlushTime ==
    /\ pcQ = "write"
    /\ pcQ' = "get"
    /\ ts_batch' = 0
    /\ flush_age' = 0
    /\ UNCHANGED <<now, data_queue, pcAd, offered, put_wait, next_id,
                   aggregation_buffer, hdfs_buffer, dequeued, incoming,
                   trim_err, trim_deleted, copies, flushes, filterOnly, legacyOnly>>

\* Mutant: a failed write drops the buffer.
WriteFailDropsBuffer ==
    /\ pcQ = "write"
    /\ pcQ' = "get"
    /\ ts_batch' = 0
    /\ hdfs_buffer' = <<>>
    /\ UNCHANGED <<now, data_queue, pcAd, offered, put_wait, next_id,
                   aggregation_buffer, dequeued, flush_age, incoming,
                   trim_err, trim_deleted, copies, flushes, filterOnly, legacyOnly>>

\* hdfs_client.write raises: logged, the buffer and last_hdfs_flush stay.
WriteFail ==
    /\ pcQ = "write"
    /\ pcQ' = "get"
    /\ ts_batch' = 0
    /\ UNCHANGED <<now, data_queue, pcAd, offered, put_wait, next_id,
                   aggregation_buffer, hdfs_buffer, dequeued, flush_age, incoming,
                   trim_err, trim_deleted, copies, flushes, filterOnly, legacyOnly>>

\* Mutant: a failed delete is not caught inside cleanup_old_batches; it
\* reaches the handler of the write, and the buffer is kept for a retry.
CleanupFailureFailsFlush ==
    /\ pcQ = "trim"
    /\ \/ /\ incoming' = incoming
          /\ trim_deleted' = {}
          /\ trim_err' = "list"
          /\ pcQ' = "flushed"
       \/ \E failed \in SUBSET FilesToDelete(incoming) :
            /\ incoming' = incoming \ (FilesToDelete(incoming) \ failed)
            /\ trim_deleted' = FilesToDelete(incoming) \ failed
            /\ trim_err' = IF failed = {} THEN "none" ELSE "delete"
            /\ pcQ' = IF failed = {} THEN "flushed" ELSE "get"
    /\ UNCHANGED <<now, data_queue, pcAd, offered, put_wait, next_id,
                   aggregation_buffer, hdfs_buffer, dequeued, flush_age, ts_batch, copies, flushes, filterOnly, legacyOnly>>

\* cleanup_old_batches(): the listing may fail (nothing is deleted), and each
\* delete may fail (that file is skipped).
CleanupOldBatches ==
    /\ pcQ = "trim"
    /\ \/ /\ incoming' = incoming
          /\ trim_deleted' = {}
          /\ trim_err' = "list"
       \/ \E failed \in SUBSET FilesToDelete(incoming) :
            /\ incoming' = incoming \ (FilesToDelete(incoming) \ failed)
            /\ trim_deleted' = FilesToDelete(incoming) \ failed
            /\ trim_err' = IF failed = {} THEN "none" ELSE "delete"
    /\ pcQ' = "flushed"
    /\ UNCHANGED <<now, data_queue, pcAd, offered, put_wait, next_id,
                   aggregation_buffer, hdfs_buffer, dequeued, flush_age, ts_batch, copies, flushes, filterOnly, legacyOnly>>

\* hdfs_buffer = []; last_hdfs_flush = time.time()
FlushDone ==
    /\ pcQ = "flushed"
    /\ hdfs_buffer' = <<>>
    /\ dequeued' = <<>>
    /\ flush_age' = 0
    /\ pcQ' = "get"
    /\ ts_batch' = 0
    /\ trim_err' = "none"
    /\ trim_deleted' = {}
    /\ UNCHANGED <<now, data_queue, pcAd, offered, put_wait, next_id,
                   aggregation_buffer, incoming, copies, flushes, filterOnly, legacyOnly>>

\* ------------------------------------------------------------- SpecBatch
\* The batch side takes its readings from one sensor at one price: the
\* batch writer never looks at either.
BatchSensors == {"A1"}
BatchPrices == {4}

NextBatch ==
    \/ \E a \in Adapters, sid \in BatchSensors, p \in BatchPrices : AdapterPut(a, sid, p)
    \/ \E a \in Adapters, sid \in BatchSensors, p \in BatchPrices : AdapterBlock(a, sid, p)
    \/ \E a \in Adapters : AdapterWake(a)
    \/ Tick
    \/ QueueGetItem
    \/ QueueGetEmpty
    \/ WriteOk
    \/ WriteFail
    \/ CleanupOldBatches
    \/ FlushDone

SpecBatch == InitBatch /\ [][NextBatch]_vars

\* process_queue is a thread that never exits, time passes, and an archive
\* write that is retried for ever eventually succeeds.
ProcessQueueStep ==
    QueueGetItem \/ QueueGetEmpty \/ WriteFail \/ CleanupOldBatches \/ FlushDone

\* The liveness check starts on an empty incoming directory: the directory
\* only feeds cleanup_old_batches, which never blocks.
InitBatchEmpty == InitBatch /\ incoming = {}

FairSpecBatch ==
    /\ InitBatchEmpty
    /\ [][NextBatch]_vars
    /\ WF_vars(ProcessQueueStep)
    /\ WF_vars(Tick)
    /\ SF_vars(WriteOk)
    /\ \A a \in Adapters : WF_vars(AdapterWake(a))

\* ------------------------------------------------------------------------
\* Reading r has been appended to data_queue (put() has returned).
Enqueued(r) ==
    /\ r < next_id
    /\ \A a \in Adapters : ~(pcAd[a] = "put" /\ offered[a].id = r)

BeforeTrim == incoming \cup trim_deleted

\* C5 as stated: after every run of retention trimming the incoming
\* directory holds at most RETAIN batch files, exactly the RETAIN greatest
\* names in lexicographic order.
C5_Original_TrimAlwaysLeavesNewestK ==
    pcQ = "flushed" =>
        /\ Cardinality(incoming) <= RETAIN
        /\ incoming = Newest(BeforeTrim)

\* C5 amended: a run of retention trimming never deletes one of the RETAIN
\* greatest names, and when its listing and all its deletions succeed the
\* directory holds at most RETAIN batch files, exactly the RETAIN greatest
\* names in lexicographic order.
C5_TrimLeavesNewestKUnlessFailure ==
    pcQ = "flushed" =>
        /\ Newest(BeforeTrim) \subseteq incoming
        /\ trim_err = "none" =>
              /\ Cardinality(incoming) <= RETAIN
              /\ incoming = Newest(BeforeTrim)

\* C5 witness: a trimming run that deleted files without error and left
\* exactly RETAIN of them.
C5_Witness ==
    /\ pcQ = "flushed"
    /\ trim_err = "none"
    /\ trim_deleted # {}
    /\ Cardinality(incoming) = RETAIN

\* ------------------------------------------------------------------------
\* The scenario of C8: no elapsed-time trigger (the clock does not advance)
\* and no write failure.
NextBatchCalm ==
    \/ \E a \in Adapters, sid \in BatchSensors, p \in BatchPrices : AdapterPut(a, sid, p)
    \/ \E a \in Adapters, sid \in BatchSensors, p \in BatchPrices : AdapterBlock(a, sid, p)
    \/ \E a \in Adapters : AdapterWake(a)
    \/ QueueGetItem
    \/ QueueGetEmpty
    \/ WriteOk
    \/ CleanupOldBatches
    \/ FlushDone

SpecBatchCalm == InitBatch /\ [][NextBatchCalm]_vars

\* Exactly HDFS_BATCH_SIZE + 1 readings have been enqueued, all of them have
\* been dequeued, and process_queue is between two drain cycles.
ThresholdPlusOneDrained ==
    /\ next_id = HDFS_BATCH_SIZE + 2
    /\ \A a \in Adapters : pcAd[a] = "idle"
    /\ data_queue = <<>>
    /\ pcQ = "get"

\* C8 as stated: enqueuing HDFS_BATCH_SIZE + 1 readings causes exactly one
\* flush, whose file holds all HDFS_BATCH_SIZE + 1 lines.
C8_Original_OneFileWithAllLines ==
    ThresholdPlusOneDrained =>
        /\ flushes = 1
        /\ \A r \in 1..(HDFS_BATCH_SIZE + 1) : copies[r] = 1

\* C8 amended: enqueuing HDFS_BATCH_SIZE + 1 readings causes exactly one
\* flush, whose file holds HDFS_BATCH_SIZE lines; the remaining reading is
\* alone in the buffer, in no file yet.
C8_FlushAtThresholdLeavesOne ==
    ThresholdPlusOneDrained =>
        /\ flushes = 1
        /\ Cardinality({r \in 1..(HDFS_BATCH_SIZE + 1) : copies[r] = 1}) = HDFS_BATCH_SIZE
        /\ Len(hdfs_buffer) = 1
        /\ copies[hdfs_buffer[1]] = 0

\* C8 witness: the scenario's final state, one flush done.
C8_Witness == ThresholdPlusOneDrained /\ flushes = 1 /\ Len(hdfs_buffer) = 1

\* ------------------------------------------------------------------------
InQueue(r) == \E i \in 1..Len(data_queue) : data_queue[i].id = r
InBuffer(r) == \E i \in 1..Len(hdfs_buffer) : hdfs_buffer[i] = r
InPut(r) == \E a \in Adapters : pcAd[a] = "put" /\ offered[a].id = r

\* C10 as stated: a put() on a full queue gives up after a short timeout, so
\* no adapter is ever found waiting in put() for longer than that.
C10_Original_PutTimesOut == \A a \in Adapters : put_wait[a] <= PutTimeout

\* C10 amended: put() has no timeout. The queue never holds more than its
\* capacity, and every reading an adapter has offered is still held by the
\* adapter waiting in put(), or is on the queue, or has been dequeued into
\* the batch buffer or a batch file: none is discarded.
C10_PutBlocksAndNeverDiscards ==
    /\ Len(data_queue) <= QUEUE_MAXSIZE
    /\ \A a \in Adapters : pcAd[a] = "put" <=> offered[a] # NoReading
    /\ \A r \in Ids : r < next_id =>
           InPut(r) \/ InQueue(r) \/ InBuffer(r) \/ copies[r] >= 1

\* C10 witness: an adapter still waiting in put() on a full queue after more
\* than the timeout.
C10_Witness ==
    \E a \in Adapters : pcAd[a] = "put" /\ QueueFull /\ put_wait[a] > PutTimeout

\* ========================================================================
\* The filter side of producer_unified.py
\* ========================================================================
EmptyBuffer == [s \in Sensors |-> <<>>]

\* process_queue, as the filter side sees it: each dequeued reading's price
\* is appended to its sensor's list under buffer_lock.
AggAppend(sid, p) ==
    /\ appended < MaxValues
    /\ aggregation_buffer' = AggPut(aggregation_buffer, sid, p)
    /\ appended' = appended + 1
    /\ UNCHANGED <<legacyOnly, batchOnly, filtering_model, model_lock, pcA, current_data, todo,
                   cur, m_read, outcome, writes, rejected, discard_counter, pcM,
                   content, local_count, current_total, stats_file, base_total,
                   retrying>>

\* ----------------------------------------------------- process_aggregates
\* After time.sleep(AGGREGATION_WINDOW): with model_lock: has_model = bool(filtering_model)
AggCheckModel ==
    /\ pcA = "sleep"
    /\ model_lock = "free"
    /\ pcA' = IF Falsy(filtering_model) THEN "clear" ELSE "swap"
    /\ outcome' = NoOutcome
    /\ UNCHANGED <<legacyOnly, batchOnly, aggregation_buffer, filtering_model, model_lock,
                   current_data, todo, cur, m_read, writes, rejected, appended,
                   discard_counter, pcM, content, local_count, current_total,
                   stats_file, base_total, retrying>>

\* Mutant of AggClear: the window goes on to classify what was buffered.
AggClearClassifies ==
    /\ pcA = "clear"
    /\ pcA' = "swap"
    /\ UNCHANGED <<legacyOnly, batchOnly, aggregation_buffer, filtering_model, model_lock,
                   current_data, todo, cur, m_read, outcome, writes, rejected,
                   appended, discard_counter, pcM, content, local_count,
                   current_total, stats_file, base_total, retrying>>

\* if not has_model: with buffer_lock: aggregation_buffer.clear(); continue
AggClear ==
    /\ pcA = "clear"
    /\ aggregation_buffer' = EmptyBuffer
    /\ pcA' = "sleep"
    /\ UNCHANGED <<legacyOnly, batchOnly, filtering_model, model_lock, current_data, todo, cur,
                   m_read, outcome, writes, rejected, appended, discard_counter,
                   pcM, content, local_count, current_total, stats_file,
                   base_total, retrying>>

\* with buffer_lock: copy every non-empty list, then aggregation_buffer.clear()
AggSwap ==
    /\ pcA = "swap"
    /\ current_data' = aggregation_buffer
    /\ aggregation_buffer' = EmptyBuffer
    /\ todo' = {s \in Sensors : aggregation_buffer[s] # <<>>}
    /\ pcA' = IF \A s \in Sensors : aggregation_buffer[s] = <<>> THEN "sleep" ELSE "classify"
    /\ UNCHANGED <<legacyOnly, batchOnly, filtering_model, model_lock, cur, m_read, outcome,
                   writes, rejected, appended, discard_counter, pcM, content,
                   local_count, current_total, stats_file, base_total, retrying>>

\* The loop over current_data is over: back to time.sleep.
AfterSensor(sid) ==
    /\ todo' = todo \ {sid}
    /\ current_data' = IF todo = {sid} THEN EmptyBuffer ELSE current_data
    /\ pcA' = IF todo = {sid} THEN "sleep" ELSE "classify"
    /\ cur' = "none"
    /\ m_read' = 0

\* Mutant: a rejected aggregate counts once for every reading it averages.
RouteCountsReadings(sid, entry, m, sd, clean) ==
    /\ outcome' = [sid |-> sid, total |-> Sum(current_data[sid]),
                    n |-> Len(current_data[sid]), entry |-> entry,
                    m |-> m, sd |-> sd, wrote |-> clean]
    /\ writes' = IF clean THEN writes + 1 ELSE writes
    /\ discard_counter' = IF clean THEN discard_counter
                          ELSE discard_counter + Len(current_data[sid])
    /\ rejected' = IF clean THEN rejected ELSE rejected + Len(current_data[sid])

\* if is_clean(sid, avg): cassandra_session.execute(...) (errors swallowed)
\* else: with discard_lock: discard_counter += 1
Route(sid, entry, m, sd, clean) ==
    /\ outcome' = [sid |-> sid, total |-> Sum(current_data[sid]),
                    n |-> Len(current_data[sid]), entry |-> entry,
                    m |-> m, sd |-> sd, wrote |-> clean]
    /\ writes' = IF clean THEN writes + 1 ELSE writes
    /\ discard_counter' = IF clean THEN discard_counter ELSE discard_counter + 1
    /\ rejected' = IF clean THEN rejected ELSE rejected + 1

\* is_clean(sid, avg), entered: with model_lock; a missing model or a sensor
\* without an entry returns False at once; otherwise m is read.
IsCleanEnter(sid) ==
    /\ pcA = "classify"
    /\ sid \in todo
    /\ model_lock = "free"
    /\ IF HasEntry(filtering_model, sid)
       THEN /\ model_lock' = "agg"
            /\ cur' = sid
            /\ m_read' = ModelOf(filtering_model)[sid].mean
            /\ pcA' = "std"
            /\ UNCHANGED <<todo, current_data, outcome, writes, rejected, discard_counter>>
       ELSE /\ Route(sid, FALSE, 0, 0, FALSE)
            /\ AfterSensor(sid)
            /\ UNCHANGED model_lock
    /\ UNCHANGED <<legacyOnly, batchOnly, aggregation_buffer, filtering_model, appended, pcM,
                   content, local_count, current_total, stats_file, base_total,
                   retrying>>

\* is_clean, still inside with model_lock: s is read, the verdict returned,
\* the lock released, and the aggregate written or counted as a discard.
IsCleanStd ==
    /\ pcA = "std"
    /\ model_lock' = "free"
    /\ IF HasStd(filtering_model, cur)
       THEN LET sd == ModelOf(filtering_model)[cur].std_dev IN
            /\ Route(cur, TRUE, m_read, sd,
                      Verdict(Sum(current_data[cur]), Len(current_data[cur]), m_read, sd))
            /\ AfterSensor(cur)
       ELSE \* filtering_model[sid]['std_dev'] raises KeyError:
            \* process_aggregates has no handler
            /\ pcA' = "crashed"
            /\ UNCHANGED <<todo, current_data, cur, m_read, outcome, writes,
                           rejected, discard_counter>>
    /\ UNCHANGED <<legacyOnly, batchOnly, aggregation_buffer, filtering_model, appended, pcM,
                   content, local_count, current_total, stats_file, base_total,
                   retrying>>

\* ------------------------------------------------------------ update_model
\* main's loop calls update_model(): the status call finds the model file.
\* (A failing status call or a missing file returns with nothing changed.)
UpdateModelStart ==
    /\ pcM = "idle"
    /\ pcM' = "u_download"
    /\ UNCHANGED <<legacyOnly, batchOnly, aggregation_buffer, filtering_model, model_lock, pcA,
                   current_data, todo, cur, m_read, outcome, writes, rejected,
                   appended, discard_counter, content, local_count,
                   current_total, stats_file, base_total, retrying>>

\* fast_client.download(...) and f.read(): the download may raise; empty
\* text and '{}' are skipped; anything else goes on to the swap.
UpdateDownload ==
    /\ pcM = "u_download"
    /\ \/ /\ pcM' = "idle"
          /\ UNCHANGED content
       \/ \E c \in Contents :
            IF c \in {"empty", "{}"}
            THEN pcM' = "idle" /\ UNCHANGED content
            ELSE pcM' = "u_lock" /\ content' = c
    /\ UNCHANGED <<legacyOnly, batchOnly, aggregation_buffer, filtering_model, model_lock, pcA,
                   current_data, todo, cur, m_read, outcome, writes, rejected,
                   appended, discard_counter, local_count, current_total,
                   stats_file, base_total, retrying>>

\* Mutant: the swap does not wait for model_lock.
UpdateLockNotTaken ==
    /\ pcM = "u_lock"
    /\ pcM' = "u_parse"
    /\ UNCHANGED <<legacyOnly, batchOnly, aggregation_buffer, filtering_model, model_lock, pcA,
                   current_data, todo, cur, m_read, outcome, writes, rejected,
                   appended, discard_counter, content, local_count,
                   current_total, stats_file, base_total, retrying>>

\* with model_lock:
UpdateLock ==
    /\ pcM = "u_lock"
    /\ model_lock = "free"
    /\ model_lock' = "main"
    /\ pcM' = "u_parse"
    /\ UNCHANGED <<legacyOnly, batchOnly, aggregation_buffer, filtering_model, pcA,
                   current_data, todo, cur, m_read, outcome, writes, rejected,
                   appended, discard_counter, content, local_count,
                   current_total, stats_file, base_total, retrying>>

\* Mutant: the parsed model is dropped.
UpdateParseKeepsModel ==
    /\ pcM = "u_parse"
    /\ filtering_model' = filtering_model
    /\ model_lock' = IF model_lock = "main" THEN "free" ELSE model_lock
    /\ pcM' = "idle"
    /\ content' = "empty"
    /\ UNCHANGED <<legacyOnly, batchOnly, aggregation_buffer, pcA, current_data, todo, cur,
                   m_read, outcome, writes, rejected, appended, discard_counter,
                   local_count, current_total, stats_file, base_total, retrying>>

\* json.loads(c), inside the with block
Parse(c) == IF c = "null" THEN "None" ELSE c

\* filtering_model = json.loads(c): json.loads raises on text that is not
\* JSON and the model stays; otherwise the parsed value replaces it. The
\* with block releases model_lock either way.
UpdateParse ==
    /\ pcM = "u_parse"
    /\ filtering_model' = IF content = "garbage" THEN filtering_model ELSE Parse(content)
    /\ model_lock' = IF model_lock = "main" THEN "free" ELSE model_lock
    /\ pcM' = "idle"
    /\ content' = "empty"
    /\ UNCHANGED <<legacyOnly, batchOnly, aggregation_buffer, pcA, current_data, todo, cur,
                   m_read, outcome, writes, rejected, appended, discard_counter,
                   local_count, current_total, stats_file, base_total, retrying>>

\* ----------------------------------------------------- flush_discard_stats
\* with discard_lock: if discard_counter == 0: return; local_count = discard_counter
FlushStart ==
    /\ pcM = "idle"
    /\ discard_counter > 0
    /\ local_count' = discard_counter
    /\ pcM' = "f_read"
    /\ UNCHANGED <<legacyOnly, batchOnly, aggregation_buffer, filtering_model, model_lock, pcA,
                   current_data, todo, cur, m_read, outcome, writes, rejected,
                   appended, discard_counter, content, current_total,
                   stats_file, base_total, retrying>>

\* Back to main's loop with the locals dropped.
FlushReturn ==
    /\ pcM' = "idle"
    /\ local_count' = 0
    /\ current_total' = 0

\* The status call and the read. A missing file counts as a total of 0; a
\* file that is there but cannot be read or parsed (or a status call that
\* raises) ends the flush with nothing written.
FlushRead ==
    /\ pcM = "f_read"
    /\ \/ /\ stats_file.state = "absent"
          /\ current_total' = 0
          /\ pcM' = "f_write"
          /\ UNCHANGED local_count
       \/ /\ stats_file.state = "ok"
          /\ current_total' = stats_file.total
          /\ pcM' = "f_write"
          /\ UNCHANGED local_count
       \/ FlushReturn
    /\ UNCHANGED <<legacyOnly, batchOnly, aggregation_buffer, filtering_model, model_lock, pcA,
                   current_data, todo, cur, m_read, outcome, writes, rejected,
                   appended, discard_counter, content, stats_file, base_total,
                   retrying>>

\* Mutant of FlushWriteOk: the total is computed from the counter as it is
\* at the write.
FlushWriteOkRereadsCounter ==
    /\ pcM = "f_write"
    /\ stats_file' = StatsTotal(current_total + discard_counter)
    /\ pcM' = "f_dec"
    /\ UNCHANGED <<legacyOnly, batchOnly, aggregation_buffer, filtering_model, model_lock, pcA,
                   current_data, todo, cur, m_read, outcome, writes, rejected,
                   appended, discard_counter, content, local_count,
                   current_total, base_total, retrying>>

\* hdfs_client.write(..., overwrite=True) of {"total": new_total} succeeds.
FlushWriteOk ==
    /\ pcM = "f_write"
    /\ stats_file' = StatsTotal(current_total + local_count)
    /\ pcM' = "f_dec"
    /\ UNCHANGED <<legacyOnly, batchOnly, aggregation_buffer, filtering_model, model_lock, pcA,
                   current_data, todo, cur, m_read, outcome, writes, rejected,
                   appended, discard_counter, content, local_count,
                   current_total, base_total, retrying>>

\* The write raises: the file is as it was (the archive's overwrite is
\* atomic), the error is logged and discard_counter is not touched.
FlushWriteFail ==
    /\ pcM = "f_write"
    /\ FlushReturn
    /\ retrying' = TRUE
    /\ UNCHANGED <<legacyOnly, batchOnly, aggregation_buffer, filtering_model, model_lock, pcA,
                   current_data, todo, cur, m_read, outcome, writes, rejected,
                   appended, discard_counter, content, stats_file, base_total>>

\* with discard_lock: discard_counter -= local_count
FlushDec ==
    /\ pcM = "f_dec"
    /\ discard_counter' = discard_counter - local_count
    /\ FlushReturn
    /\ retrying' = FALSE
    /\ UNCHANGED <<legacyOnly, batchOnly, aggregation_buffer, filtering_model, model_lock, pcA,
                   current_data, todo, cur, m_read, outcome, writes, rejected,
                   appended, content, stats_file, base_total>>

\* --------------------------------------------------------------- SpecAgg
\* After setup_connections and init_discard_stats: no model yet; the stats
\* file is what an earlier run left, or {"total": 0}, or still missing when
\* init_discard_stats could not write it.
InitAgg ==
    /\ variant = "unified"
    /\ BatchIdle
    /\ LegacyIdle
    /\ model_file = "missing"
    /\ incoming = {}
    /\ aggregation_buffer = EmptyBuffer
    /\ FilterIdle
    /\ pcM = "idle"
    /\ filtering_model = "None"
    /\ stats_file \in {StatsAbsent, StatsCorrupt, StatsTotal(0), StatsTotal(1)}
    /\ base_total = stats_file.total

NextAgg ==
    \/ \E sid \in Sensors, p \in Prices : AggAppend(sid, p)
    \/ AggCheckModel
    \/ AggClear
    \/ AggSwap
    \/ \E sid \in Sensors : IsCleanEnter(sid)
    \/ IsCleanStd
    \/ UpdateModelStart
    \/ UpdateDownload
    \/ UpdateLock
    \/ UpdateParse
    \/ FlushStart
    \/ FlushRead
    \/ FlushWriteOk
    \/ FlushWriteFail
    \/ FlushDec

SpecAgg == InitAgg /\ [][NextAgg]_vars

\* ------------------------------------------------------------------- C2
\* The aggregate of outcome lies within mean +- 3 * std_dev of the entry
\* is_clean read (avg = total / n, compared without the division).
OutcomeInBand ==
    /\ (outcome.m - 3 * outcome.sd) * outcome.n <= outcome.total
    /\ outcome.total <= (outcome.m + 3 * outcome.sd) * outcome.n

\* C2 as stated: with a model loaded, a sensor's aggregate is written to the
\* low-latency store iff the window's mean lies within mean +- 3 * std_dev
\* of that sensor's model entry.
C2_Original_WriteIffInBand ==
    (outcome.sid # "none" /\ outcome.entry) => (outcome.wrote <=> OutcomeInBand)

\* C2, corrected: for every sensor classified in a window that found a model
\* loaded, the write is issued iff the model is_clean reads has an entry for
\* the sensor and either that entry's std_dev is 0 or the window's mean lies
\* within mean +- 3 * std_dev of it; a sensor without an entry is never
\* written.
C2_WriteIffEntryAndZeroOrInBand ==
    outcome.sid # "none" =>
        (outcome.wrote <=> (outcome.entry /\ (outcome.sd = 0 \/ OutcomeInBand)))

\* A window mean outside the (degenerate) band of a zero-deviation entry was
\* written.
C2_Witness ==
    /\ outcome.sid # "none"
    /\ outcome.entry
    /\ outcome.sd = 0
    /\ ~OutcomeInBand
    /\ outcome.wrote

\* ------------------------------------------------------------------- C3
\* C3: a window whose has_model check found no model issues no write and
\* counts no discard, and ends by clearing the whole aggregation buffer; in
\* producer.py a message whose snapshot of the model found none issues no
\* write and counts no discard. Both hold whatever a concurrent model
\* refresh does in between.
C3_NoModelWindowWritesNothing ==
    [][/\ pcA = "clear" =>
            /\ writes' = writes
            /\ rejected' = rejected
            /\ discard_counter' <= discard_counter
            /\ pcA' # "clear" => (pcA' = "sleep" /\ aggregation_buffer' = EmptyBuffer)
       /\ \A c \in Conns :
            (pcW[c] = "route" /\ Falsy(current_model[c]) /\ pcW'[c] = "idle") =>
                /\ writes' = writes
                /\ rejected' = rejected
                /\ discard_counter_memory' = discard_counter_memory]_vars

\* A model was swapped in while a no-model window was still to clear a
\* buffer that holds values.
C3_Witness ==
    /\ pcA = "clear"
    /\ ~Falsy(filtering_model)
    /\ aggregation_buffer # EmptyBuffer

\* ------------------------------------------------------------------- C4
\* C4 as stated: once the write of a flush has succeeded, the durable total
\* is the total read before it plus every increment made to the in-memory
\* counter since the last successful flush.
C4_Original_TotalHasAllIncrements ==
    pcM = "f_dec" => stats_file = StatsTotal(current_total + discard_counter)

\* C4, corrected: once the write of a flush has succeeded, the durable total
\* is the total read before it plus the delta snapshotted when the flush
\* began; rejections counted while the flush ran stay in the in-memory
\* counter for the next flush, so that durable total plus pending delta
\* always equals the starting total plus every rejection, with or without
\* failed attempts before.
C4_TotalHasSnapshotRestStaysPending ==
    /\ pcM = "f_dec" =>
        /\ stats_file = StatsTotal(current_total + local_count)
        /\ stats_file.total + (discard_counter - local_count) = base_total + rejected
    /\ pcM # "f_dec" => stats_file.total + discard_counter = base_total + rejected

\* A retried flush has written while a rejection counted after its snapshot
\* is pending.
C4_Witness ==
    /\ pcM = "f_dec"
    /\ retrying
    /\ discard_counter > local_count
    /\ current_total > 0

\* ------------------------------------------------------------------- C6
\* C6: every is_clean call that read a model entry evaluated the mean and
\* std_dev of one and the same published model, whatever update_model did
\* concurrently; in producer.py every message is classified against the one
\* reference it took under model_lock, which is a whole published model or
\* none.
C6_ClassifiedAgainstOneModel ==
    /\ (outcome.sid # "none" /\ outcome.entry) =>
            \E name \in ModelNames :
                /\ outcome.sid \in DOMAIN ModelOf(name)
                /\ ModelOf(name)[outcome.sid] =
                        [mean |-> outcome.m, std_dev |-> outcome.sd]
    /\ \A c \in Conns :
            pcW[c] = "route" => current_model[c] \in ModelNames \cup {"None"}

\* update_model is waiting for model_lock, with a different model to swap
\* in, while is_clean holds it between its two reads.
C6_Witness ==
    /\ pcA = "std"
    /\ pcM = "u_lock"
    /\ content \in ModelNames
    /\ content # filtering_model
    /\ cur \in DOMAIN ModelOf(content)

\* ========================================================================
\* producer.py
\* ========================================================================
MaxLegacyTime == Epoch + MaxLegacyTicks

\* The rotating discard-stats file: absent, unreadable, or
\* {"previous": p, "current": c}.
LStatsAbsent == [state |-> "absent", previous |-> 0, current |-> 0]
LStatsCorrupt == [state |-> "corrupt", previous |-> 0, current |-> 0]
LStats(p, c) == [state |-> "ok", previous |-> p, current |-> c]

\* ws_thread.is_alive(), for connection c
Alive(c) == ws[c] \in {"open", "closing"}

\* A failed hdfs_client.status(HDFS_ROTATE_TRIGGER_PATH) ends main: its
\* finally block runs and the daemon threads go with the process.
Running == variant = "legacy" /\ pcM # "crashed"

\* The trades the push stream may deliver.
LegacyTrades == {[sid |-> "A1", p |-> 8], [sid |-> "B1", p |-> 4]}

\* is_data_clean(sensor_id, temp, model)
IsDataClean(sid, p, model) ==
    IF ~HasEntry(model, sid) THEN TRUE
    ELSE IF ~HasStd(model, sid) THEN TRUE   \* model_params.get('std_dev') is None
    ELSE LET e == ModelOf(model)[sid] IN e.std_dev <= 0 \/ InBand(p, 1, e.mean, e.std_dev)

\* The clock of a producer.py run: time passes while main is in one of its
\* sleeps or in join; what main does between two of them takes no time.
LegacyTick ==
    /\ Running
    /\ now < MaxLegacyTime
    /\ pcM \in {"sleep", "join", "backoff"}
    /\ now < wake
    /\ now' = now + 1
    /\ UNCHANGED <<unifiedOnly, filtering_model, model_lock, outcome, writes,
                   rejected, pcM, stats_file, base_total, legacyOnly>>

\* --------------------------------------------------------------- on_message
\* A trade of a tracked symbol arrives on the open connection c (anything
\* else returns before line 257): last_data_received_time = time.time(),
\* then with model_lock: current_model = filtering_model if it is truthy.
WsMessage(c, trade) ==
    /\ Running
    /\ ws[c] = "open"
    /\ pcW[c] = "idle"
    /\ received < MaxMessages
    /\ model_lock = "free"
    /\ last_data_received_time' = now
    /\ gap' = Min(now - last_data_received_time, watchdog_timeout + 1)
    /\ received' = received + 1
    /\ msg' = [msg EXCEPT ![c] = trade]
    /\ current_model' = [current_model EXCEPT ![c] = filtering_model]
    /\ pcW' = [pcW EXCEPT ![c] = "route"]
    /\ UNCHANGED <<unifiedOnly, now, filtering_model, model_lock, outcome, writes,
                   rejected, pcM, stats_file, base_total, variant, ws,
                   connections, wake, discard_counter_memory, rotate_trigger,
                   current_job_discards, old_stats, read_failed, pcMW,
                   new_model_data, model_file, rotations, forced, lost, archived>>

\* The rest of on_message: if current_model: is_data_clean decides, an
\* anomaly is counted under discard_lock; the line is appended to the
\* archive in any case; the store is written only if is_clean.
WsRoute(c) ==
    /\ Running
    /\ pcW[c] = "route"
    /\ LET model == current_model[c]
           sid == msg[c].sid
           p == msg[c].p
           clean == ~Falsy(model) /\ IsDataClean(sid, p, model)
           counted == ~Falsy(model) /\ ~IsDataClean(sid, p, model)
       IN /\ writes' = IF clean THEN writes + 1 ELSE writes
          /\ discard_counter_memory' =
                IF counted THEN discard_counter_memory + 1 ELSE discard_counter_memory
          /\ rejected' = IF counted THEN rejected + 1 ELSE rejected
    /\ archived' = archived + 1
    /\ pcW' = [pcW EXCEPT ![c] = "idle"]
    /\ msg' = [msg EXCEPT ![c] = NoTrade]
    /\ current_model' = [current_model EXCEPT ![c] = "None"]
    /\ UNCHANGED <<unifiedOnly, now, filtering_model, model_lock, outcome, pcM,
                   stats_file, base_total, variant, ws, connections,
                   last_data_received_time, wake, rotate_trigger,
                   current_job_discards, old_stats, read_failed, pcMW,
                   new_model_data, model_file, received, rotations, gap, forced, lost>>

\* ws_app.run_forever returns: after ws_app.close(), or because the
\* connection was lost or closed by the peer.
WsExit(c) ==
    /\ Running
    /\ Alive(c)
    /\ pcW[c] = "idle"
    /\ ws' = [ws EXCEPT ![c] = "dead"]
    /\ UNCHANGED <<unifiedOnly, now, filtering_model, model_lock, outcome, writes,
                   rejected, pcM, stats_file, base_total, variant, pcW, msg,
                   current_model, connections, last_data_received_time, wake,
                   discard_counter_memory, rotate_trigger, current_job_discards,
                   old_stats, read_failed, pcMW, new_model_data, model_file, received, archived,
                   rotations, gap, forced, lost>>

\* ------------------------------------------------- update_filtering_model
\* Where thread t stands, and the same with t moved to pc.
PcOf(t) == IF t = "main" THEN pcM ELSE pcMW

\* update_filtering_model returns to its caller: main goes on to the
\* trigger check, model_watcher to its next sleep.
Returned(t) == IF t = "main" THEN "trigger" ELSE "sleep"

\* model_watcher: time.sleep(60) is over (its period is longer than a run
\* of the model, so the wake-up is not clocked).
WatcherWake ==
    /\ Running
    /\ pcMW = "sleep"
    /\ pcMW' = "u_download"
    /\ UNCHANGED <<unifiedOnly, now, filtering_model, model_lock, outcome, writes,
                   rejected, pcM, stats_file, base_total, variant, ws, pcW, msg,
                   current_model, connections, last_data_received_time, wake,
                   discard_counter_memory, rotate_trigger, current_job_discards,
                   old_stats, read_failed, new_model_data, model_file, received, archived, rotations,
                   gap, forced, lost>>

\* status, download, read and json.loads, all before the lock is taken: a
\* missing file, a failed call (~ok), empty text, '{}' and unparsable text return
\* with the model as it was; otherwise new_model_data is the parsed value.
UpdateFetch(t) ==
    /\ Running
    /\ PcOf(t) = "u_download"
    /\ \E ok \in BOOLEAN :
        LET c == model_file
            loaded == ok /\ c \in ModelNames \cup {"null"}
            next == IF loaded THEN "u_assign" ELSE Returned(t)
        IN /\ new_model_data' =
                IF loaded THEN [new_model_data EXCEPT ![t] = Parse(c)] ELSE new_model_data
           /\ IF t = "main" THEN pcM' = next /\ UNCHANGED pcMW
                            ELSE pcMW' = next /\ UNCHANGED pcM
    /\ UNCHANGED <<unifiedOnly, now, filtering_model, model_lock, outcome, writes,
                   rejected, stats_file, base_total, variant, ws, pcW, msg,
                   current_model, connections, last_data_received_time, wake,
                   discard_counter_memory, rotate_trigger, current_job_discards,
                   old_stats, read_failed, model_file, received, archived, rotations, gap,
                   forced, lost>>

\* with model_lock: filtering_model = new_model_data
UpdateAssign(t) ==
    /\ Running
    /\ PcOf(t) = "u_assign"
    /\ model_lock = "free"
    /\ filtering_model' = new_model_data[t]
    /\ new_model_data' = [new_model_data EXCEPT ![t] = "None"]
    /\ IF t = "main" THEN pcM' = Returned(t) /\ UNCHANGED pcMW
                     ELSE pcMW' = Returned(t) /\ UNCHANGED pcM
    /\ UNCHANGED <<unifiedOnly, now, model_lock, outcome, writes, rejected,
                   stats_file, base_total, variant, ws, pcW, msg, current_model,
                   connections, last_data_received_time, wake,
                   discard_counter_memory, rotate_trigger, current_job_discards,
                   old_stats, read_failed, model_file, received, archived, rotations, gap,
                   forced, lost>>

\* --------------------------------------------------------------------- main
\* The outer while True (after the reconnect delay, if any): a new ws
\* thread is started and last_data_received_time = time.time().
MainConnect ==
    /\ Running
    /\ pcM = "connect" \/ (pcM = "backoff" /\ now >= wake)
    /\ connections < MaxConnects
    /\ connections' = connections + 1
    /\ ws' = [ws EXCEPT ![connections + 1] = "open"]
    /\ last_data_received_time' = now
    /\ pcM' = "loop"
    /\ UNCHANGED <<unifiedOnly, now, filtering_model, model_lock, outcome, writes,
                   rejected, stats_file, base_total, variant, pcW, msg,
                   current_model, wake, discard_counter_memory, rotate_trigger,
                   current_job_discards, old_stats, read_failed, pcMW,
                   new_model_data, model_file, received, archived, rotations, gap, forced, lost>>

\* while ws_thread.is_alive(): time.sleep(10); a dead thread ends the inner
\* loop and main goes to ws_thread.join(timeout=5.0).
MainLoop ==
    /\ Running
    /\ pcM = "loop"
    /\ IF Alive(connections)
       THEN pcM' = "sleep" /\ wake' = now + POLL /\ UNCHANGED lost
       ELSE pcM' = "join" /\ wake' = now + JOIN_TIMEOUT /\ lost' = lost + 1
    /\ UNCHANGED <<unifiedOnly, now, filtering_model, model_lock, outcome, writes,
                   rejected, stats_file, base_total, variant, ws, pcW, msg,
                   current_model, connections, last_data_received_time,
                   discard_counter_memory, rotate_trigger, current_job_discards,
                   old_stats, read_failed, pcMW, new_model_data, model_file, received, archived,
                   rotations, gap, forced>>

\* Mutant: the watchdog fires at the timeout itself.
SilentAtTimeout == now - last_data_received_time >= watchdog_timeout

\* time.time() - last_data_received_time > watchdog_timeout
Silent == now - last_data_received_time > watchdog_timeout

\* The sleep is over, the watchdog looks: on a silence longer than the
\* timeout ws_app.close() and break; otherwise on to the model check.
MainWatchdog ==
    /\ Running
    /\ pcM = "sleep"
    /\ now >= wake
    /\ IF Silent
       THEN /\ ws' = [ws EXCEPT ![connections] = IF @ = "open" THEN "closing" ELSE @]
            /\ forced' = forced + 1
            /\ pcM' = "join"
            /\ wake' = now + JOIN_TIMEOUT
       ELSE /\ pcM' = "model"
            /\ UNCHANGED <<ws, forced, wake>>
    /\ UNCHANGED <<unifiedOnly, now, filtering_model, model_lock, outcome, writes,
                   rejected, stats_file, base_total, variant, pcW, msg,
                   current_model, connections, last_data_received_time,
                   discard_counter_memory, rotate_trigger, current_job_discards,
                   old_stats, read_failed, pcMW, new_model_data, model_file, received, archived,
                   rotations, gap, lost>>

\* if now >= model_attempt_start_time and not filtering_model, and the last
\* check is more than MODEL_CHECK_INTERVAL old: update_filtering_model().
\* The two time tests reach beyond a run of the model: due stands for them.
MainModelCheck ==
    /\ Running
    /\ pcM = "model"
    /\ \E due \in BOOLEAN :
        pcM' = IF due /\ Falsy(filtering_model) THEN "u_download" ELSE "trigger"
    /\ UNCHANGED <<unifiedOnly, now, filtering_model, model_lock, outcome, writes,
                   rejected, stats_file, base_total, legacyOnly>>

\* if hdfs_client.status(HDFS_ROTATE_TRIGGER_PATH, strict=False): the call
\* is outside any try and a failure ends main; with the trigger there,
\* rotate_discard_counters() starts by taking and zeroing the counter under
\* discard_lock.
MainTrigger ==
    /\ Running
    /\ pcM = "trigger"
    /\ \/ /\ pcM' = "crashed"
          /\ UNCHANGED <<current_job_discards, discard_counter_memory>>
       \/ /\ rotate_trigger
          /\ current_job_discards' = discard_counter_memory
          /\ discard_counter_memory' = 0
          /\ pcM' = "r_read"
       \/ /\ ~rotate_trigger
          /\ pcM' = "loop"
          /\ UNCHANGED <<current_job_discards, discard_counter_memory>>
    /\ UNCHANGED <<unifiedOnly, now, filtering_model, model_lock, outcome, writes,
                   rejected, stats_file, base_total, variant, ws, pcW, msg,
                   current_model, connections, last_data_received_time, wake,
                   rotate_trigger, old_stats, read_failed, pcMW, new_model_data, model_file,
                   received, archived, rotations, gap, forced, lost>>

\* ws_thread.join(timeout=5.0) returns, the thread dead or not, and the
\* reconnect delay starts.
MainJoined ==
    /\ Running
    /\ pcM = "join"
    /\ ~Alive(connections) \/ now >= wake
    /\ pcM' = "backoff"
    /\ wake' = now + RECONNECT_DELAY
    /\ UNCHANGED <<unifiedOnly, now, filtering_model, model_lock, outcome, writes,
                   rejected, stats_file, base_total, variant, ws, pcW, msg,
                   current_model, connections, last_data_received_time,
                   discard_counter_memory, rotate_trigger, current_job_discards,
                   old_stats, read_failed, pcMW, new_model_data, model_file, received, archived,
                   rotations, gap, forced, lost>>

\* -------------------------------------------------- rotate_discard_counters
\* old_stats = {"previous": 0, "current": 0}, replaced by the file's content
\* if the file is there and can be read and parsed; a read that raises is
\* logged and the zeros stay.
RotateRead ==
    /\ Running
    /\ pcM = "r_read"
    /\ \/ /\ stats_file.state = "ok"
          /\ old_stats' = [previous |-> stats_file.previous, current |-> stats_file.current]
          /\ read_failed' = FALSE
       \/ /\ old_stats' = NoStats
          /\ read_failed' = (stats_file.state # "absent")
    /\ pcM' = "r_write"
    /\ UNCHANGED <<unifiedOnly, now, filtering_model, model_lock, outcome, writes,
                   rejected, stats_file, base_total, variant, ws, pcW, msg,
                   current_model, connections, last_data_received_time, wake,
                   discard_counter_memory, rotate_trigger, current_job_discards,
                   pcMW, new_model_data, model_file, received, archived, rotations, gap, forced, lost>>

\* Mutant: a write that raises does not give the taken count back.
RotateWriteFailDropsDelta ==
    /\ Running
    /\ pcM = "r_write"
    /\ \/ stats_file' = LStats(old_stats.previous + old_stats.current,
                                 current_job_discards)
       \/ UNCHANGED stats_file
    /\ pcM' = "r_delete"
    /\ UNCHANGED <<unifiedOnly, now, filtering_model, model_lock, outcome, writes,
                   rejected, base_total, variant, ws, pcW, msg, current_model,
                   connections, last_data_received_time, wake, rotate_trigger,
                   discard_counter_memory, current_job_discards, old_stats,
                   read_failed, pcMW, new_model_data, model_file, received,
                   archived, rotations, gap, forced, lost>>

\* new_stats = {"previous": old_previous + old_current, "current":
\* current_job_discards} is written over the file; if the write raises, the
\* taken count goes back into discard_counter_memory.
RotateWrite ==
    /\ Running
    /\ pcM = "r_write"
    /\ \/ /\ stats_file' = LStats(old_stats.previous + old_stats.current,
                                   current_job_discards)
          /\ UNCHANGED discard_counter_memory
       \/ /\ discard_counter_memory' = discard_counter_memory + current_job_discards
          /\ UNCHANGED stats_file
    /\ pcM' = "r_delete"
    /\ UNCHANGED <<unifiedOnly, now, filtering_model, model_lock, outcome, writes,
                   rejected, base_total, variant, ws, pcW, msg, current_model,
                   connections, last_data_received_time, wake, rotate_trigger,
                   current_job_discards, old_stats, read_failed, pcMW,
                   new_model_data, model_file, received, archived, rotations, gap, forced, lost>>

\* hdfs_client.delete(HDFS_ROTATE_TRIGGER_PATH), whatever the write did; a
\* failed delete is logged. Back to the inner loop's test.
RotateDelete ==
    /\ Running
    /\ pcM = "r_delete"
    /\ rotate_trigger' \in {FALSE, rotate_trigger}
    /\ pcM' = "loop"
    /\ current_job_discards' = 0
    /\ old_stats' = NoStats
    /\ read_failed' = FALSE
    /\ UNCHANGED <<unifiedOnly, now, filtering_model, model_lock, outcome, writes,
                   rejected, stats_file, base_total, variant, ws, pcW, msg,
                   current_model, connections, last_data_received_time, wake,
                   discard_counter_memory, pcMW, new_model_data, model_file, received, archived,
                   rotations, gap, forced, lost>>

\* The training job publishes a model file.
Publish(c) ==
    /\ Running
    /\ model_file # c
    /\ model_file' = c
    /\ UNCHANGED <<unifiedOnly, now, filtering_model, model_lock, outcome, writes,
                   rejected, pcM, stats_file, base_total, variant, ws, pcW, msg,
                   current_model, connections, last_data_received_time, wake,
                   discard_counter_memory, rotate_trigger, current_job_discards,
                   old_stats, read_failed, pcMW, new_model_data, received, archived,
                   rotations, gap, forced, lost>>

\* The cron job leaves the rotate trigger.
CronTouch ==
    /\ Running
    /\ ~rotate_trigger
    /\ rotations < MaxRotations
    /\ rotate_trigger' = TRUE
    /\ rotations' = rotations + 1
    /\ UNCHANGED <<unifiedOnly, now, filtering_model, model_lock, outcome, writes,
                   rejected, pcM, stats_file, base_total, variant, ws, pcW, msg,
                   current_model, connections, last_data_received_time, wake,
                   discard_counter_memory, current_job_discards, old_stats,
                   read_failed, pcMW, new_model_data, model_file, received, archived, gap, forced, lost>>

\* ---------------------------------------------------------------- SpecLegacy
\* producer.py's main about to enter its while True, the model_watcher
\* asleep, the stats file as an earlier run or the initialisation left it
\* (or missing, if the initialisation failed).
LegacyStart ==
    /\ variant = "legacy"
    /\ BatchIdle
    /\ incoming = {}
    /\ aggregation_buffer = EmptyBuffer
    /\ FilterIdle
    /\ pcM = "connect"
    /\ LegacyIdle
    /\ stats_file \in {LStatsAbsent, LStatsCorrupt, LStats(0, 0), LStats(1, 1)}
    /\ base_total = stats_file.previous + stats_file.current

\* No model published yet.
InitLegacy ==
    /\ LegacyStart
    /\ filtering_model = "None"
    /\ model_file = "missing"

\* Filtering on producer.py, within one sleep of main: the connection is up,
\* trades arrive, the training job publishes and model_watcher refreshes.
NextLegacy ==
    \/ \E c \in Conns, trade \in LegacyTrades : WsMessage(c, trade)
    \/ \E c \in Conns : WsRoute(c)
    \/ WatcherWake
    \/ UpdateFetch("watcher")
    \/ UpdateAssign("watcher")
    \/ \E c \in Contents : Publish(c)
    \/ MainConnect
    \/ MainLoop

SpecLegacy == InitLegacy /\ [][NextLegacy]_vars

\* The supervisor and the connection, with no model published and no
\* rotation asked for.
NextWatchdog ==
    \/ LegacyTick
    \/ \E c \in Conns, trade \in LegacyTrades : WsMessage(c, trade)
    \/ \E c \in Conns : WsRoute(c)
    \/ \E c \in Conns : WsExit(c)
    \/ UpdateFetch("main")
    \/ MainConnect
    \/ MainLoop
    \/ MainWatchdog
    \/ MainModelCheck
    \/ MainTrigger
    \/ MainJoined

SpecWatchdog == InitLegacy /\ [][NextWatchdog]_vars

\* Model M1 has been loaded.
InitRotate ==
    /\ LegacyStart
    /\ filtering_model = "M1"
    /\ model_file = "M1"

\* Counting and rotation on producer.py, with the model loaded and the
\* connection up.
NextRotate ==
    \/ LegacyTick
    \/ \E c \in Conns, trade \in LegacyTrades : WsMessage(c, trade)
    \/ \E c \in Conns : WsRoute(c)
    \/ MainConnect
    \/ MainLoop
    \/ MainWatchdog
    \/ MainModelCheck
    \/ MainTrigger
    \/ RotateRead
    \/ RotateWrite
    \/ RotateDelete
    \/ CronTouch

SpecRotate == InitRotate /\ [][NextRotate]_vars

\* Either producer: the unified one's filter side or producer.py's.
InitProducers == InitAgg \/ InitLegacy

NextProducers ==
    \/ variant = "unified" /\ NextAgg
    \/ variant = "legacy" /\ NextLegacy

SpecProducers == InitProducers /\ [][NextProducers]_vars

\* ------------------------------------------------------------------- C7
\* Main is inside its inner loop, with ws_thread started and not given up.
InInnerLoop == pcM \in {"loop", "sleep", "model", "u_download", "u_assign", "trigger"}

\* C7 as stated: a silence longer than the watchdog timeout on a live
\* connection always gets the connection closed, so that no trade ever ends
\* a silence longer than the timeout on a connection that was left open.
C7_Original_LongSilenceAlwaysClosed == gap <= watchdog_timeout

\* C7, corrected: the supervisor looks only when one of its 10 s sleeps ends.
\* If at that moment more than the timeout has passed since the last
\* recorded trade (or since the connection was started), it closes the
\* connection and leaves the inner loop, and nothing else ever closes one;
\* otherwise it leaves the connection alone. Each connection that was closed
\* or found dead is followed by exactly one new one, started only after the
\* reconnect delay.
C7_ClosesAtPollAndReconnectsOnce ==
    /\ [](connections <= forced + lost + 1)
    /\ [](InInnerLoop => connections = forced + lost + 1)
    /\ [](pcM \in {"join", "backoff"} => connections = forced + lost)
    /\ [][/\ (pcM = "sleep" /\ pcM' # "sleep") =>
                IF now - last_data_received_time > watchdog_timeout
                THEN forced' = forced + 1 /\ pcM' = "join" /\ ws'[connections] # "open"
                ELSE forced' = forced /\ pcM' = "model" /\ ws' = ws
          /\ (pcM # "sleep") => forced' = forced
          /\ connections' # connections =>
                /\ connections' = connections + 1
                /\ pcM = "connect" \/ (pcM = "backoff" /\ now >= wake)]_vars

\* The watchdog closed the first connection and main has started the second.
C7_Witness ==
    /\ forced = 1
    /\ lost = 0
    /\ connections = 2
    /\ ws[2] = "open"

\* ------------------------------------------------------------------- C9
\* C9 as stated, for flush_discard_stats and for rotate_discard_counters:
\* with the stats file absent, a flush writes exactly the delta it took
\* (as {"total": d}, or as {"previous": 0, "current": d}); after a failed
\* read of a file that exists, nothing is written and the delta is left (or
\* put back) as it was.
C9_Original_FailedReadWritesNothing ==
    [][/\ (pcM = "f_write" /\ stats_file.state = "absent" /\ pcM' = "f_dec") =>
            stats_file' = StatsTotal(local_count)
       /\ (pcM = "f_read" /\ stats_file.state # "absent" /\ pcM' = "idle") =>
            (stats_file' = stats_file /\ discard_counter' = discard_counter)
       /\ (pcM = "r_write" /\ stats_file.state = "absent" /\ stats_file' # stats_file) =>
            stats_file' = LStats(0, current_job_discards)
       /\ (pcM = "r_write" /\ read_failed) =>
            /\ stats_file' = stats_file
            /\ discard_counter_memory' = discard_counter_memory + current_job_discards]_vars

\* ------------------------------------------------------------------ C11
\* Both sides of producer_unified.py on one stream of readings, with a model
\* loaded or not: the adapters, the queue, the batch writer while its writes
\* succeed and the size threshold drives the flushes, and the aggregation
\* loop.
InitPipe ==
    /\ variant = "unified"
    /\ BatchIdle
    /\ LegacyIdle
    /\ model_file = "missing"
    /\ incoming = {}
    /\ aggregation_buffer = EmptyBuffer
    /\ FilterIdle
    /\ pcM = "idle"
    /\ filtering_model \in {"None"} \cup ModelNames
    /\ stats_file = StatsTotal(0)
    /\ base_total = 0

NextPipe ==
    \/ \E a \in Adapters, sid \in BatchSensors, p \in Prices : AdapterPut(a, sid, p)
    \/ \E a \in Adapters, sid \in BatchSensors, p \in Prices : AdapterBlock(a, sid, p)
    \/ \E a \in Adapters : AdapterWake(a)
    \/ QueueGetItem
    \/ QueueGetEmpty
    \/ WriteOk
    \/ CleanupOldBatches
    \/ FlushDone
    \/ AggCheckModel
    \/ AggClear
    \/ AggSwap
    \/ \E sid \in Sensors : IsCleanEnter(sid)
    \/ IsCleanStd

\* Either producer, from the reading to the two stores.
InitRouting == InitPipe \/ InitLegacy

NextRouting ==
    \/ variant = "unified" /\ NextPipe
    \/ variant = "legacy" /\ NextLegacy

SpecRouting == InitRouting /\ [][NextRouting]_vars

\* C11: every reading taken from data_queue is appended to the batch buffer
\* (and every trade producer.py handles is offered to the archive), whatever
\* the model and the verdict; the low-latency store is written only for an
\* aggregate (in producer.py, a trade) that the classification against the
\* model accepted.
C11_ArchiveAlwaysStoreOnlyIfClean ==
    [][/\ Len(data_queue') < Len(data_queue) =>
            hdfs_buffer' = Append(hdfs_buffer, Head(data_queue).id)
       /\ (variant = "unified" /\ writes' # writes) =>
            /\ writes' = writes + 1
            /\ outcome'.entry
            /\ outcome'.wrote
            /\ Verdict(outcome'.total, outcome'.n, outcome'.m, outcome'.sd)
       /\ \A c \in Conns : (pcW[c] = "route" /\ pcW'[c] = "idle") =>
            /\ archived' = archived + 1
            /\ writes' # writes =>
                /\ ~Falsy(current_model[c])
                /\ IsDataClean(msg[c].sid, msg[c].p, current_model[c])]_vars

\* An aggregate was rejected and nothing reached the store, and the readings
\* are in a batch file all the same.
C11_Witness ==
    /\ variant = "unified"
    /\ flushes > 0
    /\ writes = 0
    /\ rejected > 0
    /\ \E r \in Ids : copies[r] = 1

\* ------------------------------------------------------------------ C12
\* The two classifiers on every kind of entry: a model is loaded and stays,
\* process_aggregates classifies window after window, on_message trade after
\* trade.
InitClassify ==
    \/ /\ variant = "unified"
       /\ BatchIdle
       /\ LegacyIdle
       /\ model_file = "missing"
       /\ incoming = {}
       /\ aggregation_buffer = EmptyBuffer
       /\ FilterIdle
       /\ pcM = "idle"
       /\ filtering_model \in ClassifyModels
       /\ stats_file = StatsTotal(0)
       /\ base_total = 0
    \/ /\ LegacyStart
       /\ filtering_model \in ClassifyModels
       /\ model_file = filtering_model

NextClassify ==
    \/ \E sid \in Sensors, p \in Prices : AggAppend(sid, p)
    \/ AggCheckModel
    \/ AggSwap
    \/ \E sid \in Sensors : IsCleanEnter(sid)
    \/ IsCleanStd
    \/ \E c \in Conns, trade \in LegacyTrades : WsMessage(c, trade)
    \/ \E c \in Conns : WsRoute(c)
    \/ MainConnect
    \/ MainLoop

SpecClassify == InitClassify /\ [][NextClassify]_vars

\* C12 (as stated): for a sensor with an entry, a zero or absent std_dev
\* makes the classifier accept every value, and a positive std_dev makes it
\* accept exactly the values within mean - 3*std_dev .. mean + 3*std_dev; an
\* accepted value is the one written to the store.
C12_Original_ZeroOrAbsentAcceptsAll ==
    [][/\ (pcA = "std" /\ pcA' # "std") =>
            LET e == ModelOf(filtering_model)[cur]
                total == Sum(current_data[cur])
                n == Len(current_data[cur])
            IN IF "std_dev" \notin DOMAIN e \/ e.std_dev = 0
               THEN writes' = writes + 1
               ELSE writes' = writes + 1 <=> InBand(total, n, e.mean, e.std_dev)
       /\ \A c \in Conns :
            (pcW[c] = "route" /\ pcW'[c] = "idle"
                /\ HasEntry(current_model[c], msg[c].sid)) =>
            LET e == ModelOf(current_model[c])[msg[c].sid] IN
            IF "std_dev" \notin DOMAIN e \/ e.std_dev = 0
            THEN writes' = writes + 1
            ELSE writes' = writes + 1 <=> InBand(msg[c].p, 1, e.mean, e.std_dev)]_vars

\* ------------------------------------------------------------------ C13
IsPrefix(a, b) == Len(a) <= Len(b) /\ SubSeq(b, 1, Len(a)) = a

\* C13: a failed batch-file write removes nothing from hdfs_buffer, writes no
\* file and does not advance the last-flush time, so the flush stays due:
\* the next drain cycle offers the same readings again, followed by whatever
\* it dequeued.
C13_FailedWriteKeepsBufferAndRetries ==
    /\ [][(pcQ = "write" /\ pcQ' = "get") =>
            /\ hdfs_buffer' = hdfs_buffer
            /\ flush_age' = flush_age
            /\ copies' = copies
            /\ incoming' = incoming
            /\ FlushDue(hdfs_buffer', flush_age')]_vars
    /\ [][(pcQ = "get" /\ FlushDue(hdfs_buffer, flush_age)) =>
            \/ pcQ' = "get" /\ hdfs_buffer' = hdfs_buffer
            \/ pcQ' = "write" /\ IsPrefix(hdfs_buffer, hdfs_buffer')]_vars
    /\ (pcQ = "get" /\ FlushDue(hdfs_buffer, flush_age)) ~> (pcQ = "write")

\* A write failed with the buffer at the size threshold, a reading was
\* dequeued, and the longer buffer is offered to the next write.
C13_Witness ==
    /\ pcQ = "write"
    /\ Len(hdfs_buffer) > HDFS_BATCH_SIZE

\* ------------------------------------------------------------------ C14
\* The discard counters of either producer: flush_discard_stats beside the
\* aggregation loop, rotate_discard_counters beside on_message.
InitCounters == InitAgg \/ InitRotate

NextCounters ==
    \/ variant = "unified" /\ NextAgg
    \/ variant = "legacy" /\ NextRotate

SpecCounters == InitCounters /\ [][NextCounters]_vars

\* The count the stats file holds.
Durable ==
    IF variant = "unified" THEN stats_file.total
    ELSE stats_file.previous + stats_file.current

\* The count held in memory: the counter and, in producer.py, the delta
\* rotate_discard_counters has taken out of it and not yet written or given
\* back; in producer_unified.py the counter less the delta already written
\* and not yet subtracted.
Pending ==
    IF variant = "unified"
    THEN discard_counter - (IF pcM = "f_dec" THEN local_count ELSE 0)
    ELSE discard_counter_memory
            + (IF pcM \in {"r_read", "r_write"} THEN current_job_discards ELSE 0)

Balanced == Durable + Pending = base_total + rejected

\* C14: the durable discard count plus the count held in memory equals the
\* count the stats file started with plus every rejection: no increment, no
\* flush or rotation step, and no failed write breaks it (outside a flush or
\* rotation the count held in memory is the in-memory delta itself). The one
\* step left aside is the write that follows a failed read of an existing
\* stats file in rotate_discard_counters.
C14_NoDiscardLostAcrossFailedWrites ==
    [][(Balanced
        /\ ~(pcM = "r_write" /\ read_failed /\ stats_file.state = "ok"))
       => Balanced']_vars

\* producer.py: the write of a rotation has failed with rejections taken,
\* and they are all back in discard_counter_memory.
C14_Witness ==
    /\ variant = "legacy"
    /\ pcM = "r_delete"
    /\ current_job_discards > 0
    /\ stats_file.state = "absent"
    /\ discard_counter_memory = rejected
    /\ Balanced

\* ------------------------------------------------------------------ C15
\* C15 (as stated): a stats file that is there but empty or unparsable
\* counts as a total of zero: the flush that finds it is not skipped, it
\* goes on to write, and its successful write leaves the delta d as the
\* durable count; likewise the rotation that finds it writes previous 0 and
\* current d.
C15_Original_CorruptFileCountsAsZero ==
    [][/\ (pcM = "f_read" /\ stats_file.state = "corrupt" /\ pcM' # "f_read") =>
            (pcM' = "f_write" /\ current_total' = 0)
       /\ (pcM = "f_write" /\ stats_file.state = "corrupt" /\ pcM' = "f_dec") =>
            stats_file' = StatsTotal(local_count)
       /\ (pcM = "r_write" /\ stats_file.state = "corrupt" /\ stats_file' # stats_file) =>
            stats_file' = LStats(0, current_job_discards)]_vars

\* ------------------------------------------------------------------ C16
\* C16 (as stated): a refresh that does not end with a published model
\* loaded (file missing, download error, empty content, '{}', text that does
\* not parse, or any other failure) leaves filtering_model exactly as it
\* was, and a loaded model is never replaced by no model.
C16_Original_FailedRefreshKeepsModel ==
    [][/\ ~Falsy(filtering_model) => ~Falsy(filtering_model')
       /\ (pcM = "u_download" /\ pcM' = "idle") => filtering_model' = filtering_model
       /\ (pcM = "u_parse" /\ content \notin ModelNames) =>
            filtering_model' = filtering_model
       /\ (pcMW = "u_download" /\ pcMW' = "sleep") => filtering_model' = filtering_model
       /\ (pcMW = "u_assign" /\ new_model_data["watcher"] \notin ModelNames) =>
            filtering_model' = filtering_model]_vars

\* ------------------------------------------------------------------ C17
\* ------------------------------------------------------- setup_connections
\* Everything but main's position, the two connection globals and the
\* stats file: what the adapters, process_queue, process_aggregates, the ws
\* thread, on_message and model_watcher work on.
taskVars == <<batchOnly, aggregation_buffer, filtering_model, model_lock, pcA,
              current_data, todo, cur, m_read, outcome, writes, rejected,
              appended, discard_counter, content, local_count, current_total,
              base_total, retrying, variant, ws, pcW, msg, current_model,
              connections, last_data_received_time, wake,
              discard_counter_memory, rotate_trigger, current_job_discards,
              old_stats, read_failed, pcMW, new_model_data, model_file,
              received, archived, rotations, gap, forced, lost, feedOnly>>

\* main's positions inside setup_connections.
SetupPcs == {"s_store", "s_store_sleep", "s_archive", "s_archive_sleep"}

\* The first while True: connect and prepare the insert; any exception
\* leads to time.sleep(5) and another round.
SetupStore ==
    /\ pcM = "s_store"
    /\ \/ cassandra_query' = "prepared" /\ pcM' = "s_archive"
       \/ cassandra_query' = cassandra_query /\ pcM' = "s_store_sleep"
    /\ UNCHANGED <<taskVars, stats_file, hdfs_client>>

\* time.sleep(5) is over.
SetupStoreRetry ==
    /\ pcM = "s_store_sleep"
    /\ pcM' = "s_store"
    /\ UNCHANGED <<taskVars, stats_file, connOnly>>

\* Mutant: a failed archive check ends the loop like a successful one.
SetupArchiveGivesUp ==
    /\ pcM = "s_archive"
    /\ pcM' = IF variant = "unified" THEN "init_stats" ELSE "start"
    /\ \/ hdfs_client' = "connected"
       \/ hdfs_client' = IF variant = "unified" THEN "untested" ELSE hdfs_client
    /\ UNCHANGED <<taskVars, stats_file, cassandra_query>>

\* The second while True: a client is made and the base directories are
\* checked or created; any exception leads to time.sleep(5) and another
\* round. producer_unified.py assigns the global before the check,
\* producer.py after it.
SetupArchive ==
    /\ pcM = "s_archive"
    /\ \/ /\ hdfs_client' = "connected"
          /\ pcM' = IF variant = "unified" THEN "init_stats" ELSE "start"
       \/ /\ hdfs_client' = IF variant = "unified" THEN "untested" ELSE hdfs_client
          /\ pcM' = "s_archive_sleep"
    /\ UNCHANGED <<taskVars, stats_file, cassandra_query>>

\* time.sleep(5) is over.
SetupArchiveRetry ==
    /\ pcM = "s_archive_sleep"
    /\ pcM' = "s_archive"
    /\ UNCHANGED <<taskVars, stats_file, connOnly>>

\* producer_unified.py, init_discard_stats(): a missing stats file is
\* written as {"total": 0}; every exception is swallowed.
InitDiscardStats ==
    /\ variant = "unified"
    /\ pcM = "init_stats"
    /\ \/ stats_file.state = "absent" /\ stats_file' = StatsTotal(0)
       \/ UNCHANGED stats_file
    /\ pcM' = "start"
    /\ UNCHANGED <<taskVars, connOnly>>

\* producer_unified.py, main: the five threads are started and main enters
\* its loop.
StartThreads ==
    /\ variant = "unified"
    /\ pcM = "start"
    /\ pcM' = "idle"
    /\ UNCHANGED <<taskVars, stats_file, connOnly>>

\* producer.py, main: the model_watcher thread is started.
StartWatcher ==
    /\ variant = "legacy"
    /\ pcM = "start"
    /\ pcM' = "init_stats"
    /\ UNCHANGED <<taskVars, stats_file, connOnly>>

\* producer.py, main: the status call on the stats file is outside the try
\* (a raise ends main); a missing file is written as {"previous": 0,
\* "current": 0}, a failed write is logged.
InitStatsFile ==
    /\ variant = "legacy"
    /\ pcM = "init_stats"
    /\ \/ pcM' = "crashed" /\ UNCHANGED stats_file
       \/ pcM' = "connect" /\ stats_file.state = "absent" /\ stats_file' = LStats(0, 0)
       \/ pcM' = "connect" /\ UNCHANGED stats_file
    /\ UNCHANGED <<taskVars, connOnly>>

\* The threads main starts are running.
Started ==
    /\ pcM \notin SetupPcs \cup {"start"}
    /\ variant = "unified" => pcM # "init_stats"

\* A fresh process of either producer.
InitStartup ==
    /\ variant \in {"unified", "legacy"}
    /\ BatchIdle
    /\ LegacyFields
    /\ cassandra_query = "None"
    /\ hdfs_client = "None"
    /\ model_file = "missing"
    /\ incoming = {}
    /\ aggregation_buffer = EmptyBuffer
    /\ FilterIdle
    /\ pcM = "s_store"
    /\ filtering_model = "None"
    /\ stats_file = IF variant = "unified" THEN StatsAbsent ELSE LStatsAbsent
    /\ base_total = 0

NextStartup ==
    \/ SetupStore
    \/ SetupStoreRetry
    \/ SetupArchive
    \/ SetupArchiveRetry
    \/ InitDiscardStats
    \/ StartThreads
    \/ StartWatcher
    \/ InitStatsFile
    \/ /\ Started
       /\ variant = "unified"
       /\ \/ \E a \in Adapters, sid \in BatchSensors, p \in BatchPrices : AdapterPut(a, sid, p)
          \/ \E a \in Adapters, sid \in BatchSensors, p \in BatchPrices : AdapterBlock(a, sid, p)
          \/ \E a \in Adapters : AdapterWake(a)
          \/ QueueGetItem
          \/ QueueGetEmpty
          \/ WriteOk
          \/ CleanupOldBatches
          \/ FlushDone
          \/ AggCheckModel
          \/ AggClear
    \/ /\ Started
       /\ variant = "legacy"
       /\ NextLegacy

SpecStartup == InitStartup /\ [][NextStartup]_vars

\* C17: until the store loop and then the archive loop of setup_connections
\* have each ended with a success, main stays inside them (a failed attempt
\* is followed by the fixed sleep and the same attempt again), no task runs
\* and nothing is enqueued, buffered, received or written; the tasks run
\* only with both connections made.
C17_NoTaskBeforeBothConnections ==
    [][/\ ~Started => UNCHANGED taskVars
       /\ Started' => (cassandra_query' = "prepared" /\ hdfs_client' = "connected")
       /\ (pcM \in {"s_store", "s_store_sleep"} /\ cassandra_query' # "prepared") =>
            pcM' \in {"s_store", "s_store_sleep"}
       /\ (pcM \in {"s_archive", "s_archive_sleep"} /\ hdfs_client' # "connected") =>
            pcM' \in {"s_archive", "s_archive_sleep"}
       /\ pcM = "s_store_sleep" => pcM' \in {"s_store_sleep", "s_store"}
       /\ pcM = "s_archive_sleep" => pcM' \in {"s_archive_sleep", "s_archive"}]_vars

\* The store is connected, the archive check has failed and main sleeps
\* before the next attempt: nothing has been enqueued or received.
C17_Witness ==
    /\ pcM = "s_archive_sleep"
    /\ cassandra_query = "prepared"
    /\ hdfs_client # "connected"
    /\ next_id = 1
    /\ received = 0

\* ------------------------------------------------------------------ C18
\* C18 (as stated): no failed archive or store call ends the main loop of
\* either producer: after a failed refresh, flush, rotation step or
\* existence check of the rotate trigger, main is still in its loop.
C18_Original_NoFailedCallEndsMain == pcM # "crashed"

\* ------------------------------------------------------------------ C19
\* C19 (as stated): a rotation started by the rotate trigger ends with the
\* roll durably written (previous = old previous + old current, current =
\* the delta taken) and with the trigger deleted, so that the trigger is
\* never deleted without the roll and never left to start a second roll.
C19_Original_OneDurableRollPerSentinel ==
    [][(pcM = "r_delete" /\ pcM' = "loop") =>
            /\ stats_file' = LStats(old_stats.previous + old_stats.current,
                                     current_job_discards)
            /\ ~rotate_trigger']_vars

\* ------------------------------------------------------------------ C20
\* C20 (as stated): a drain cycle goes on to a flush exactly when the buffer
\* is non-empty and its length is at least the size threshold or the time
\* since the last successful flush is at least the flush interval.
C20_Original_FlushAtInterval ==
    [][/\ (pcQ = "get" /\ pcQ' = "write") =>
            /\ Len(hdfs_buffer') > 0
            /\ Len(hdfs_buffer') >= HDFS_BATCH_SIZE \/ flush_age >= HDFS_FLUSH_INTERVAL
       /\ (pcQ = "get" /\ pcQ' = "get" /\ Len(data_queue') < Len(data_queue)) =>
            ~(/\ Len(hdfs_buffer') > 0
              /\ Len(hdfs_buffer') >= HDFS_BATCH_SIZE \/ flush_age >= HDFS_FLUSH_INTERVAL)]_vars

\* C20, corrected: a drain cycle goes on to a flush exactly when the buffer
\* is non-empty and its length is at least the size threshold or the time
\* since the last successful flush is more than the flush interval; a cycle
\* that ends with exactly the interval elapsed and fewer readings than the
\* threshold does not flush.
C20_FlushAfterInterval ==
    [][/\ (pcQ = "get" /\ pcQ' = "write") =>
            /\ Len(hdfs_buffer') > 0
            /\ Len(hdfs_buffer') >= HDFS_BATCH_SIZE \/ flush_age > HDFS_FLUSH_INTERVAL
       /\ (pcQ = "get" /\ pcQ' = "get" /\ Len(data_queue') < Len(data_queue)) =>
            ~(/\ Len(hdfs_buffer') > 0
              /\ Len(hdfs_buffer') >= HDFS_BATCH_SIZE \/ flush_age > HDFS_FLUSH_INTERVAL)
       /\ (pcQ = "get" /\ data_queue = <<>> /\ hdfs_buffer # <<>>
            /\ flush_age > HDFS_FLUSH_INTERVAL) =>
            (pcQ' = "write" \/ UNCHANGED <<pcQ, hdfs_buffer, ts_batch>>)]_vars

\* After a flush: the buffer holds fewer readings than the threshold,
\* exactly the interval has elapsed, the queue is empty and process_queue is
\* at its dequeue, where the cycle of the timeout will not flush.
C20_Witness ==
    /\ pcQ = "get"
    /\ flush_age = HDFS_FLUSH_INTERVAL
    /\ Len(hdfs_buffer) > 0
    /\ Len(hdfs_buffer) < HDFS_BATCH_SIZE
    /\ data_queue = <<>>
    /\ flushes > 0

\* ------------------------------------------------------------------ C21
\* Reading r is a line of the batch buffer.
InBatchBuffer(r) == \E i \in 1..Len(hdfs_buffer) : hdfs_buffer[i] = r

\* C21: a non-empty batch buffer does not wait for traffic: with the queue
\* empty and no reading on its way, the dequeue times out, the flush test
\* comes true once the interval has passed and a write is attempted; and
\* every buffered reading is eventually in a written file, when archive
\* writes eventually succeed.
C21_IdleBufferEventuallyFlushed ==
    /\ (hdfs_buffer # <<>> /\ pcQ = "get" /\ data_queue = <<>>
            /\ next_id > MaxReadings /\ \A a \in Adapters : pcAd[a] = "idle")
          ~> (pcQ = "write")
    /\ \A r \in Ids : InBatchBuffer(r) ~> (copies[r] >= 1)

\* The flush of a buffer below the size threshold is attempted with the
\* queue empty and every reading of the run already taken.
C21_Witness ==
    /\ pcQ = "write"
    /\ Len(hdfs_buffer) < HDFS_BATCH_SIZE
    /\ data_queue = <<>>
    /\ next_id > MaxReadings
    /\ \A a \in Adapters : pcAd[a] = "idle"
    /\ flush_age > HDFS_FLUSH_INTERVAL

\* ------------------------------------------------------------------ C22
\* C22: a run of retention trimming deletes only files outside the RETAIN
\* newest, a deletion that fails is skipped and the others are still
\* carried out, and whatever failed the flush goes on as a success: the
\* written file stays, the buffer is emptied and the last-flush time is
\* advanced.
C22_FailedDeleteSkippedFlushSucceeds ==
    [][/\ (pcQ = "trim" /\ pcQ' # "trim") =>
            /\ pcQ' = "flushed"
            /\ incoming' \subseteq incoming
            /\ (incoming \ incoming') \subseteq FilesToDelete(incoming)
            /\ trim_err' = "none" => incoming \ incoming' = FilesToDelete(incoming)
            /\ ts_batch \in incoming'
            /\ hdfs_buffer' = hdfs_buffer
            /\ copies' = copies
       /\ (pcQ = "flushed" /\ pcQ' # "flushed") =>
            /\ pcQ' = "get"
            /\ hdfs_buffer' = <<>>
            /\ flush_age' = 0
            /\ incoming' = incoming
            /\ copies' = copies]_vars

\* One deletion of a trimming run has failed, another has been carried out,
\* and the flush is about to empty the buffer.
C22_Witness ==
    /\ pcQ = "flushed"
    /\ trim_err = "delete"
    /\ trim_deleted # {}
    /\ FilesToDelete(incoming) # {}
    /\ hdfs_buffer # <<>>

\* ------------------------------------------------------------------ C23
\* ------------------------------------------------------------ run_binance
\* In producer_unified.py pcAd["Binance"] is "connect" at the top of
\* run_binance's while True, "idle" inside ws.run_forever() between two
\* messages, "put" inside on_msg's data_queue.put, and "sleep" in the
\* except branch; connections counts the WebSocketApps it has run.
batchRest == <<data_queue, offered, put_wait, next_id, aggregation_buffer,
               hdfs_buffer, dequeued, flush_age, pcQ, ts_batch, incoming, trim_err,
               trim_deleted, copies, flushes, filterOnly>>

legacyRest == <<variant, ws, pcW, msg, current_model, last_data_received_time,
                discard_counter_memory, rotate_trigger, current_job_discards,
                old_stats, read_failed, pcMW, new_model_data, model_file,
                received, archived, rotations, gap, forced, lost, connOnly, feedOnly>>

\* One pass of the try block from the top of the loop: the app is made and
\* run_forever() entered, or something raises before that.
RunBinanceConnect ==
    /\ variant = "unified"
    /\ pcAd["Binance"] = "connect"
    /\ connections < MaxConnects
    /\ \/ /\ pcAd' = [pcAd EXCEPT !["Binance"] = "idle"]
          /\ connections' = connections + 1
          /\ UNCHANGED wake
       \/ /\ pcAd' = [pcAd EXCEPT !["Binance"] = "sleep"]
          /\ wake' = now + BINANCE_RETRY_DELAY
          /\ UNCHANGED connections
    /\ UNCHANGED <<now, batchRest, legacyRest>>

\* ws.run_forever() returns (the peer closed, or the network failed and the
\* library reported it to on_error): the try block ends without an
\* exception, and the next pass of while True makes and runs a new app at
\* once; only an exception leads to the sleep.
RunForeverReturns ==
    /\ variant = "unified"
    /\ pcAd["Binance"] = "idle"
    /\ connections >= 1
    /\ connections < MaxConnects
    /\ \/ /\ connections' = connections + 1
          /\ UNCHANGED <<pcAd, wake>>
       \/ /\ pcAd' = [pcAd EXCEPT !["Binance"] = "sleep"]
          /\ wake' = now + BINANCE_RETRY_DELAY
          /\ UNCHANGED connections
    /\ UNCHANGED <<now, batchRest, legacyRest>>

\* time.sleep(5) is over: back to the top of the loop.
RunBinanceSleepDone ==
    /\ variant = "unified"
    /\ pcAd["Binance"] = "sleep"
    /\ now >= wake
    /\ pcAd' = [pcAd EXCEPT !["Binance"] = "connect"]
    /\ UNCHANGED <<now, connections, wake, batchRest, legacyRest>>

\* producer_unified.py with run_binance about to open its first connection.
InitBinance ==
    /\ variant = "unified"
    /\ now = Epoch
    /\ data_queue = <<>>
    /\ pcAd = [a \in Adapters |-> IF a = "Binance" THEN "connect" ELSE "idle"]
    /\ offered = [a \in Adapters |-> NoReading]
    /\ put_wait = [a \in Adapters |-> 0]
    /\ next_id = 1
    /\ hdfs_buffer = <<>>
    /\ dequeued = <<>>
    /\ flush_age = 0
    /\ pcQ = "get"
    /\ ts_batch = 0
    /\ trim_err = "none"
    /\ trim_deleted = {}
    /\ copies = [r \in Ids |-> 0]
    /\ flushes = 0
    /\ FeedIdle
    /\ LegacyIdle
    /\ model_file = "missing"
    /\ incoming = {}
    /\ aggregation_buffer = EmptyBuffer
    /\ FilterIdle
    /\ pcM = "idle"
    /\ filtering_model = "None"
    /\ stats_file = StatsTotal(0)
    /\ base_total = 0

\* The push-stream connection of either producer.
InitReconnect == InitBinance \/ InitLegacy

NextReconnect ==
    \/ /\ variant = "unified"
       /\ \/ RunBinanceConnect
          \/ RunForeverReturns
          \/ RunBinanceSleepDone
          \/ Tick
          \/ \E sid \in BatchSensors, p \in BatchPrices : AdapterPut("Binance", sid, p)
          \/ QueueGetItem
          \/ QueueGetEmpty
          \/ WriteOk
          \/ CleanupOldBatches
          \/ FlushDone
    \/ /\ variant = "legacy"
       /\ NextWatchdog

SpecReconnect == InitReconnect /\ [][NextReconnect]_vars

\* C23 (as stated): every connection after the first is opened only when
\* the reconnect delay that followed the end of the one before has run
\* out, and the loop that reconnects never ends.
C23_Original_ReconnectAfterDelayForEver ==
    /\ [][connections' # connections =>
            /\ connections' = connections + 1
            /\ connections >= 1 =>
                IF variant = "unified"
                THEN pcAd["Binance"] = "connect" /\ now >= wake
                ELSE pcM = "backoff" /\ now >= wake]_vars
    /\ [](pcM # "crashed")

\* ------------------------------------------------------------------- C24
\* The ids of a sequence of readings, in its order.
IdsOf(seq) == [i \in 1..Len(seq) |-> seq[i].id]

\* An adapter numbers its readings in the order it makes them, and it makes
\* the next one only when put() has returned: seq holds the readings of
\* adapter a in the order a enqueued them.
InSourceOrder(seq, a) ==
    \A i, j \in 1..Len(seq) :
        (i < j /\ seq[i].src = a /\ seq[j].src = a /\ seq[i].sid = seq[j].sid)
            => seq[i].id < seq[j].id

\* C24: the lines of hdfs_buffer, which a successful write joins into the
\* batch file, are the readings dequeued since the last completed flush in
\* the order of the dequeues; the readings of the push-stream adapter for one
\* sensor stand in the queue, and then in the buffer, in the order the
\* adapter enqueued them.
C24_BatchLinesInDequeueOrder ==
    /\ [](hdfs_buffer = IdsOf(dequeued))
    /\ [](InSourceOrder(dequeued \o data_queue, "Binance"))
    /\ [][(pcQ = "write" /\ pcQ' = "trim") =>
            /\ ts_batch \in incoming'
            /\ hdfs_buffer' = hdfs_buffer
            /\ \A r \in Ids : copies'[r] > copies[r] <=>
                   \E i \in 1..Len(dequeued) : dequeued[i].id = r]_vars

\* A batch file has been written whose lines are not in the order the
\* readings were made, and two of them are the push-stream adapter's.
C24_Witness ==
    /\ pcQ = "trim"
    /\ \E i, j \in 1..Len(dequeued) :
        i < j /\ dequeued[i].src = "Binance" /\ dequeued[j].src = "Binance"
    /\ \E i, j \in 1..Len(dequeued) : i < j /\ dequeued[i].id > dequeued[j].id

\* ------------------------------------------------------------------- C25
\* run_binance's on_msg (producer_unified.py, lines 192-204).
\* Event times 'E' of the feed, and what the socket may deliver: text that
\* json.loads rejects, a message without 'data' (the subscription reply), an
\* event that is not a trade, and trades: of a tracked symbol or not, with a
\* 'p' that float() accepts or not.
FeedStamps == {5, 6}
FeedMessages ==
    {[kind |-> k, sid |-> "none", ts |-> 0, p |-> 0, parses |-> FALSE] :
        k \in {"garbage", "nodata", "other"}}
    \cup {[kind |-> "trade", sid |-> s, ts |-> t, p |-> 4, parses |-> b] :
            s \in Sensors \cup {"none"}, t \in FeedStamps, b \in BOOLEAN}

\* What on_msg does with message m: it returns at line 195 or 198 or raises
\* before line 200 ("ignored"), returns at line 200 ("duplicate"), raises at
\* line 202 ("failed"), or reaches data_queue.put ("put").
OnMsgResult(m) ==
    IF m.kind # "trade" \/ m.sid \notin Sensors THEN "ignored"
    ELSE IF last_ts_map[m.sid] = m.ts THEN "duplicate"
    ELSE IF ~m.parses THEN "failed"
    ELSE "put"

\* One call of on_msg. last_ts_map[sid] = ts (line 201) comes before
\* float(d['p']) (line 202); put() has no timeout, the reading is on the
\* queue when it returns.
OnMsg(m) ==
    /\ pcAd["Binance"] = "idle"
    /\ handled < MaxFeed
    /\ LET res == OnMsgResult(m)
           item == [id |-> next_id, sid |-> m.sid, p |-> m.p, src |-> "Binance"]
       IN
        /\ res = "put" => next_id <= MaxReadings
        /\ on_msg_did' = [msg |-> m, res |-> res]
        /\ handled' = handled + 1
        /\ last_ts_map' = IF res \in {"failed", "put"}
                          THEN [last_ts_map EXCEPT ![m.sid] = m.ts]
                          ELSE last_ts_map
        /\ enqueued_ts' = IF res = "put"
                          THEN [enqueued_ts EXCEPT ![m.sid] = Append(@, m.ts)]
                          ELSE enqueued_ts
        /\ next_id' = IF res = "put" THEN next_id + 1 ELSE next_id
        /\ data_queue' = IF res = "put" /\ ~QueueFull
                         THEN Append(data_queue, item) ELSE data_queue
        /\ pcAd' = IF res = "put" /\ QueueFull
                   THEN [pcAd EXCEPT !["Binance"] = "put"] ELSE pcAd
        /\ offered' = IF res = "put" /\ QueueFull
                      THEN [offered EXCEPT !["Binance"] = item] ELSE offered
    /\ UNCHANGED <<now, put_wait, aggregation_buffer, hdfs_buffer, dequeued,
                   flush_age, pcQ, ts_batch, incoming, trim_err, trim_deleted,
                   copies, flushes, filterOnly, variant, ws, pcW, msg,
                   current_model, connections, last_data_received_time, wake,
                   discard_counter_memory, rotate_trigger,
                   current_job_discards, old_stats, read_failed, pcMW,
                   new_model_data, model_file, received, archived, rotations,
                   gap, forced, lost, connOnly>>

\* The push-stream adapter and the queue's consumer.
NextFeed ==
    \/ \E m \in FeedMessages : OnMsg(m)
    \/ AdapterWake("Binance")
    \/ Tick
    \/ QueueGetItem
    \/ QueueGetEmpty
    \/ WriteOk
    \/ CleanupOldBatches
    \/ FlushDone

SpecFeed == InitBatchEmpty /\ [][NextFeed]_vars

\* The event time of the last reading on_msg has put for sensor sid (0: none).
LastEnqueued(sid) ==
    IF enqueued_ts[sid] = <<>> THEN 0 ELSE enqueued_ts[sid][Len(enqueued_ts[sid])]

\* C25, as stated: a well-formed trade of a tracked instrument is put on the
\* queue iff its event time differs from that of the last reading put for
\* the instrument; nothing else is put; and on_msg drops a message as a
\* duplicate only when a reading with its event time has been put before.
C25_Original_EnqueuedIffNewStamp ==
    [][handled' # handled =>
        LET m == on_msg_did'.msg
            res == on_msg_did'.res
        IN
         /\ (m.kind = "trade" /\ m.sid \in Sensors /\ m.parses) =>
                (res = "put" <=> m.ts # LastEnqueued(m.sid))
         /\ (m.kind # "trade" \/ m.sid \notin Sensors) => res # "put"
         /\ res = "duplicate" =>
                \E i \in 1..Len(enqueued_ts[m.sid]) : enqueued_ts[m.sid][i] = m.ts]_vars

\* ------------------------------------------------------------------- C26
\* C26, as stated: the task that refreshes the model never holds model_lock
\* while it is downloading the model file or parsing it; the lock is taken
\* for the assignment to filtering_model only.
C26_Original_LockOnlyForAssignment ==
    model_lock \in {"main", "watcher"} =>
        /\ pcM \notin {"u_download", "u_parse"}
        /\ pcMW \notin {"u_download", "u_parse"}

\* ------------------------------------------------------------------- C27
\* The copy-and-clear of process_aggregates (lines 304-307), one statement
\* at a step, against process_queue's append (line 249).
\* process_aggregates is inside 'with buffer_lock'.
BufferLockHeld == pcA \in {"copy", "clearing"}

\* Mutant: the append does not take buffer_lock.
AggAppendNoLock(sid, p) ==
    /\ appended < MaxValues
    /\ aggregation_buffer' = AggPut(aggregation_buffer, sid, p)
    /\ appended' = appended + 1
    /\ UNCHANGED <<legacyOnly, batchOnly, filtering_model, model_lock, pcA, current_data, todo,
                   cur, m_read, outcome, writes, rejected, discard_counter, pcM,
                   content, local_count, current_total, stats_file, base_total,
                   retrying>>

\* with buffer_lock: aggregation_buffer[sid].append(price): the append waits
\* while process_aggregates holds the lock.
AggAppendLocked(sid, p) ==
    /\ ~BufferLockHeld
    /\ appended < MaxValues
    /\ aggregation_buffer' = AggPut(aggregation_buffer, sid, p)
    /\ appended' = appended + 1
    /\ UNCHANGED <<legacyOnly, batchOnly, filtering_model, model_lock, pcA, current_data, todo,
                   cur, m_read, outcome, writes, rejected, discard_counter, pcM,
                   content, local_count, current_total, stats_file, base_total,
                   retrying>>

\* current_data = {}; with buffer_lock: (the lock is taken)
AggSwapLock ==
    /\ pcA = "swap"
    /\ current_data' = EmptyBuffer
    /\ pcA' = "copy"
    /\ UNCHANGED <<legacyOnly, batchOnly, aggregation_buffer, filtering_model, model_lock,
                   todo, cur, m_read, outcome, writes, rejected, appended,
                   discard_counter, pcM, content, local_count, current_total,
                   stats_file, base_total, retrying>>

\* for k, v in aggregation_buffer.items(): if v: current_data[k] = v[:]
AggSwapCopy ==
    /\ pcA = "copy"
    /\ current_data' = aggregation_buffer
    /\ pcA' = "clearing"
    /\ UNCHANGED <<legacyOnly, batchOnly, aggregation_buffer, filtering_model, model_lock,
                   todo, cur, m_read, outcome, writes, rejected, appended,
                   discard_counter, pcM, content, local_count, current_total,
                   stats_file, base_total, retrying>>

\* aggregation_buffer.clear(), the lock is released, and the loop over
\* current_data begins.
AggSwapClear ==
    /\ pcA = "clearing"
    /\ aggregation_buffer' = EmptyBuffer
    /\ todo' = {s \in Sensors : current_data[s] # <<>>}
    /\ pcA' = IF \A s \in Sensors : current_data[s] = <<>> THEN "sleep" ELSE "classify"
    /\ UNCHANGED <<legacyOnly, batchOnly, filtering_model, model_lock, current_data, cur,
                   m_read, outcome, writes, rejected, appended, discard_counter,
                   pcM, content, local_count, current_total, stats_file,
                   base_total, retrying>>

\* The aggregation task and the appends, with or without a model loaded.
InitSwap ==
    /\ variant = "unified"
    /\ BatchIdle
    /\ LegacyIdle
    /\ model_file = "missing"
    /\ incoming = {}
    /\ aggregation_buffer = EmptyBuffer
    /\ FilterIdle
    /\ pcM = "idle"
    /\ filtering_model \in {"None"} \cup ModelNames
    /\ stats_file = StatsTotal(0)
    /\ base_total = 0

NextSwap ==
    \/ \E sid \in Sensors, p \in Prices : AggAppendLocked(sid, p)
    \/ AggCheckModel
    \/ AggClear
    \/ AggSwapLock
    \/ AggSwapCopy
    \/ AggSwapClear
    \/ \E sid \in Sensors : IsCleanEnter(sid)
    \/ IsCleanStd

SpecSwap == InitSwap /\ [][NextSwap]_vars

\* C27: a value leaves aggregation_buffer only when a window empties the
\* buffer: in a window without a model by the clear, in a window with a
\* model by the clear that follows the copy, and then the buffer cleared is
\* exactly what was copied, so that no value is dropped uncopied and none
\* stays for the next window; every other change of the buffer is one
\* append; and the aggregate classified for a sensor is the sum and the
\* count of the values copied for it.
C27_SwapTakesEachValueOnce ==
    [][/\ aggregation_buffer' # aggregation_buffer =>
            \/ \E sid \in Sensors, p \in Prices :
                    aggregation_buffer' = AggPut(aggregation_buffer, sid, p)
            \/ /\ aggregation_buffer' = EmptyBuffer
               /\ pcA \in {"clear", "clearing"}
               /\ pcA = "clearing" => current_data = aggregation_buffer
       /\ (pcA = "clearing" /\ pcA' # "clearing") =>
            /\ aggregation_buffer' = EmptyBuffer
            /\ current_data' = aggregation_buffer
       /\ (outcome' # outcome /\ outcome'.sid \in Sensors) =>
            /\ outcome'.total = Sum(current_data[outcome'.sid])
            /\ outcome'.n = Len(current_data[outcome'.sid])]_vars

\* A window with a model has copied two values of one sensor and is about to
\* clear them.
C27_Witness ==
    /\ pcA = "clearing"
    /\ appended >= 2
    /\ \E s \in Sensors : Len(current_data[s]) >= 2
    /\ current_data = aggregation_buffer

\* ------------------------------------------------------------------- C28
\* C28, as stated: every successful write of a flush creates a file, under a
\* name no file of the incoming directory has; a flush never writes over a
\* batch file that an earlier flush wrote.
C28_Original_FlushNeverOverwrites ==
    [][(pcQ = "write" /\ pcQ' = "trim") => ts_batch \notin incoming]_vars

\* ------------------------------------------------------------------- C29
\* C29, as stated: whatever model has been loaded, process_aggregates goes
\* on to later windows; no model entry ends the task.
C29_Original_MalformedModelNeverEndsLoop == pcA # "crashed"

\* ------------------------------------------------------------------- C30
\* update_model's download of the file that is published: it raises, or c is
\* the file's text (empty text and '{}' are skipped).
UpdateDownloadPublished ==
    /\ pcM = "u_download"
    /\ \/ /\ pcM' = "idle"
          /\ UNCHANGED content
       \/ IF model_file \in {"missing", "empty", "{}"}
          THEN pcM' = "idle" /\ UNCHANGED content
          ELSE pcM' = "u_lock" /\ content' = model_file
    /\ UNCHANGED <<legacyOnly, batchOnly, aggregation_buffer, filtering_model, model_lock, pcA,
                   current_data, todo, cur, m_read, outcome, writes, rejected,
                   appended, discard_counter, local_count, current_total,
                   stats_file, base_total, retrying>>

\* The training job has published a model and leaves it there; neither
\* producer has loaded one.
InitRefresh ==
    \/ /\ variant = "unified"
       /\ BatchIdle
       /\ LegacyIdle
       /\ model_file \in ModelNames
       /\ incoming = {}
       /\ aggregation_buffer = EmptyBuffer
       /\ FilterIdle
       /\ pcM = "idle"
       /\ filtering_model = "None"
       /\ stats_file = StatsTotal(0)
       /\ base_total = 0
    \/ /\ LegacyStart
       /\ filtering_model = "None"
       /\ model_file \in ModelNames

\* producer_unified.py: main's refresh and process_aggregates; producer.py:
\* model_watcher and on_message, within one sleep of main.
NextRefresh ==
    \/ /\ variant = "unified"
       /\ \/ UpdateModelStart
          \/ UpdateDownloadPublished
          \/ UpdateLock
          \/ UpdateParse
          \/ \E sid \in Sensors, p \in Prices : AggAppend(sid, p)
          \/ AggCheckModel
          \/ AggClear
          \/ AggSwap
          \/ \E sid \in Sensors : IsCleanEnter(sid)
          \/ IsCleanStd
    \/ /\ variant = "legacy"
       /\ \/ WatcherWake
          \/ UpdateFetch("watcher")
          \/ UpdateAssign("watcher")
          \/ \E c \in Conns, trade \in LegacyTrades : WsMessage(c, trade)
          \/ \E c \in Conns : WsRoute(c)
          \/ MainConnect
          \/ MainLoop

SpecRefresh == InitRefresh /\ [][NextRefresh]_vars

\* A download that gets the file.
DownloadSucceeds ==
    \/ UpdateDownloadPublished /\ pcM' = "u_lock"
    \/ UpdateFetch("watcher") /\ pcMW' = "u_assign"

\* The refresh comes round for ever (main's 60 s test, model_watcher's
\* time.sleep(60)), of the downloads it starts one eventually succeeds, and
\* the refreshing thread is scheduled.
FairSpecRefresh ==
    /\ SpecRefresh
    /\ SF_vars(UpdateModelStart)
    /\ WF_vars(WatcherWake)
    /\ SF_vars(DownloadSucceeds)
    /\ WF_vars(UpdateDownloadPublished)
    /\ WF_vars(UpdateFetch("watcher"))
    /\ WF_vars(UpdateLock)
    /\ WF_vars(UpdateParse)
    /\ WF_vars(UpdateAssign("watcher"))

\* C30: with a valid model file left at the model path and downloads that
\* eventually succeed, the refresh loads the model and it stays loaded; a
\* window of process_aggregates is discarded as calibration exactly when its
\* test finds no model (so that every window after the load is classified),
\* and on_message classifies against the model it finds loaded.
C30_PublishedModelEventuallyLoaded ==
    /\ <>[](filtering_model = model_file)
    /\ [][(pcA = "sleep" /\ pcA' # "sleep") =>
            IF Falsy(filtering_model) THEN pcA' = "clear" ELSE pcA' = "swap"]_vars
    /\ [][\A c \in Conns : (pcW[c] = "idle" /\ pcW'[c] = "route") =>
            current_model'[c] = filtering_model]_vars

\* The published model has been loaded and a window that found it is being
\* classified.
C30_Witness ==
    /\ variant = "unified"
    /\ filtering_model = model_file
    /\ pcA = "classify"
    /\ pcM = "idle"

LockTasks == {"agg", "main", "queue"}

\* is_clean(sid, avg) called: with model_lock; a missing model or a sensor
\* without an entry returns False, the lock released with the return;
\* otherwise m is read.
IsCleanCall(sid) ==
    /\ pcA = "classify"
    /\ sid \in todo
    /\ model_lock = "free"
    /\ cur' = sid
    /\ IF HasEntry(filtering_model, sid)
       THEN /\ model_lock' = "agg"
            /\ m_read' = ModelOf(filtering_model)[sid].mean
            /\ pcA' = "std"
            /\ UNCHANGED outcome
       ELSE /\ outcome' = [sid |-> sid, total |-> Sum(current_data[sid]),
                           n |-> Len(current_data[sid]), entry |-> FALSE,
                           m |-> 0, sd |-> 0, wrote |-> FALSE]
            /\ pcA' = "route"
            /\ UNCHANGED <<model_lock, m_read>>
    /\ UNCHANGED <<legacyOnly, batchOnly, aggregation_buffer, filtering_model,
                   todo, current_data, writes, rejected, discard_counter,
                   appended, pcM, content, local_count, current_total,
                   stats_file, base_total, retrying>>

\* Mutant: the verdict is routed inside is_clean's with block, model_lock
\* still held.
IsCleanReturnKeepsLock ==
    /\ pcA = "std"
    /\ HasStd(filtering_model, cur)
    /\ LET sd == ModelOf(filtering_model)[cur].std_dev IN
        outcome' = [sid |-> cur, total |-> Sum(current_data[cur]),
                    n |-> Len(current_data[cur]), entry |-> TRUE,
                    m |-> m_read, sd |-> sd,
                    wrote |-> Verdict(Sum(current_data[cur]),
                                      Len(current_data[cur]), m_read, sd)]
    /\ pcA' = "route"
    /\ UNCHANGED <<legacyOnly, batchOnly, aggregation_buffer, filtering_model,
                   model_lock, todo, current_data, cur, m_read, writes,
                   rejected, discard_counter, appended, pcM, content,
                   local_count, current_total, stats_file, base_total,
                   retrying>>

\* is_clean reads s and returns its verdict; the with block ends and
\* model_lock is released (also when the missing key raises).
IsCleanReturn ==
    /\ pcA = "std"
    /\ model_lock' = "free"
    /\ IF HasStd(filtering_model, cur)
       THEN LET sd == ModelOf(filtering_model)[cur].std_dev IN
            /\ outcome' = [sid |-> cur, total |-> Sum(current_data[cur]),
                           n |-> Len(current_data[cur]), entry |-> TRUE,
                           m |-> m_read, sd |-> sd,
                           wrote |-> Verdict(Sum(current_data[cur]),
                                             Len(current_data[cur]), m_read, sd)]
            /\ pcA' = "route"
       ELSE /\ pcA' = "crashed"
            /\ UNCHANGED outcome
    /\ UNCHANGED <<legacyOnly, batchOnly, aggregation_buffer, filtering_model,
                   todo, current_data, cur, m_read, writes, rejected,
                   discard_counter, appended, pcM, content, local_count,
                   current_total, stats_file, base_total, retrying>>

\* Lines 312-317 after is_clean has returned: the execute call, or
\* with discard_lock: discard_counter += 1; then the next sensor.
AggRoute ==
    /\ pcA = "route"
    /\ writes' = IF outcome.wrote THEN writes + 1 ELSE writes
    /\ discard_counter' = IF outcome.wrote THEN discard_counter ELSE discard_counter + 1
    /\ rejected' = IF outcome.wrote THEN rejected ELSE rejected + 1
    /\ AfterSensor(cur)
    /\ UNCHANGED <<legacyOnly, batchOnly, aggregation_buffer, filtering_model,
                   model_lock, outcome, appended, pcM, content, local_count,
                   current_total, stats_file, base_total, retrying>>

\* The locks task t is inside the with block of.
Holds(t) ==
    (IF model_lock = t THEN {"model_lock"} ELSE {})
    \cup (IF t = "agg" /\ BufferLockHeld THEN {"buffer_lock"} ELSE {})

\* The lock task t takes next: process_aggregates' model test and is_clean
\* (model_lock), its clear and its copy (buffer_lock), its count of a discard
\* (discard_lock); update_model's swap (model_lock), flush_discard_stats'
\* snapshot and subtraction (discard_lock); process_queue's append.
Wants(t) ==
    IF t = "agg" THEN
        IF pcA \in {"sleep", "classify"} THEN {"model_lock"}
        ELSE IF pcA \in {"clear", "swap"} THEN {"buffer_lock"}
        ELSE IF pcA = "route" /\ ~outcome.wrote THEN {"discard_lock"}
        ELSE {}
    ELSE IF t = "main" THEN
        IF pcM = "u_lock" THEN {"model_lock"}
        ELSE IF pcM \in {"idle", "f_dec"} THEN {"discard_lock"}
        ELSE {}
    ELSE {"buffer_lock"}

InitLocks ==
    /\ variant = "unified"
    /\ BatchIdle
    /\ LegacyIdle
    /\ model_file = "missing"
    /\ incoming = {}
    /\ aggregation_buffer = EmptyBuffer
    /\ FilterIdle
    /\ pcM = "idle"
    /\ filtering_model = "None"
    /\ stats_file = StatsTotal(0)
    /\ base_total = 0

NextLocks ==
    \/ \E sid \in Sensors, p \in Prices : AggAppendLocked(sid, p)
    \/ AggCheckModel
    \/ AggClear
    \/ AggSwapLock
    \/ AggSwapCopy
    \/ AggSwapClear
    \/ \E sid \in Sensors : IsCleanCall(sid)
    \/ IsCleanReturn
    \/ AggRoute
    \/ UpdateModelStart
    \/ UpdateDownload
    \/ UpdateLock
    \/ UpdateParse
    \/ FlushStart
    \/ FlushRead
    \/ FlushWriteOk
    \/ FlushWriteFail
    \/ FlushDec

SpecLocks == InitLocks /\ [][NextLocks]_vars

\* C32: a task that is about to take a lock holds none, no task is ever
\* inside two with blocks, a lock is entered only by a task that held none,
\* and no two tasks wait for a lock the other holds.
C32_NoLockTakenWhileHoldingAnother ==
    /\ [](\A t \in LockTasks : Wants(t) # {} => Holds(t) = {})
    /\ [](\A t \in LockTasks : Cardinality(Holds(t)) <= 1)
    /\ [](\A t, u \in LockTasks :
            ~(t # u /\ Wants(t) \cap Holds(u) # {} /\ Wants(u) \cap Holds(t) # {}))
    /\ [][\A t \in LockTasks : Holds(t)' # Holds(t) =>
            Holds(t) = {} \/ Holds(t)' = {}]_vars

\* update_model waits for model_lock, which is_clean holds, while a discard
\* that flush_discard_stats will take is counted.
C32_Witness ==
    /\ model_lock = "agg"
    /\ pcM = "u_lock"
    /\ discard_counter >= 1

\* ------------------------------------------------------------------- C33
\* C33: a flush is under way only with a non-empty buffer, so every file
\* written holds at least one line; a pass of process_queue's loop that ends
\* with an empty buffer goes back to the dequeue, whatever the time since
\* the last flush, and leaves the incoming directory alone.
C33_NoFlushOfEmptyBuffer ==
    /\ [](pcQ \in {"write", "trim", "flushed"} => hdfs_buffer # <<>>)
    /\ [][/\ (pcQ = "get" /\ hdfs_buffer' = <<>>) =>
                /\ pcQ' = "get"
                /\ incoming' = incoming
                /\ flushes' = flushes
          /\ flushes' # flushes =>
                /\ hdfs_buffer # <<>>
                /\ \E r \in Ids : copies'[r] = copies[r] + 1]_vars

\* The buffer is empty, the queue is empty and more than the flush interval
\* has passed since the last flush, which wrote a file: the loop is at the
\* dequeue.
C33_Witness ==
    /\ pcQ = "get"
    /\ hdfs_buffer = <<>>
    /\ data_queue = <<>>
    /\ flush_age > HDFS_FLUSH_INTERVAL
    /\ flushes >= 1

C35_Original_AtMostOneConnectionAlive ==
    Cardinality({c \in Conns : Alive(c)}) <= 1
====
